---- MODULE Spec2Model ----
(***************************************************************************)
(* Query routing core of the ai-voice-agent repository.                    *)
(*                                                                         *)
(*   custom_tasks.py : handle_task, the router, and its intent predicates  *)
(*   pdf_utils.py    : query_pdf, the Document Matcher, and the persisted  *)
(*                     semantic index (build_or_load_vectorstore)          *)
(*   csv_utils.py    : query_csv, the Tabular Matcher                      *)
(*                                                                         *)
(* Python strings are TLA+ strings; TLC treats a string as the sequence of *)
(* its one-character strings, so strip, lower, "in" and the regular        *)
(* expressions are computed character by character as the code does.       *)
(* Two non-ASCII markers of the source are written in ASCII:               *)
(*   CsvErrorMark stands for U+274C (csv_utils.py, custom_tasks.py)        *)
(*   PdfErrorMark stands for the two characters U+00E2 U+0152 that         *)
(*   pdf_utils.py holds in its place (a different string).                 *)
(***************************************************************************)
EXTENDS Integers, Sequences, FiniteSets, TLC

(***************************************************************************)
(* Python string primitives                                                *)
(***************************************************************************)
Ch(s, i) == SubSeq(s, i, i)

Tail0(s, i) == IF i > Len(s) THEN "" ELSE SubSeq(s, i, Len(s))

LowerAlpha == "abcdefghijklmnopqrstuvwxyz"

UpperAlpha == "ABCDEFGHIJKLMNOPQRSTUVWXYZ"

Digits == "0123456789"

PosIn(c, alphabet) == CHOOSE k \in 1..Len(alphabet) : Ch(alphabet, k) = c

CharsOf(alphabet) == {Ch(alphabet, k) : k \in 1..Len(alphabet)}

LowerChars == CharsOf(LowerAlpha)

UpperChars == CharsOf(UpperAlpha)

DigitChars == CharsOf(Digits)

SpaceChars == {" ", "\t", "\n", "\r"}

IsSpace(c) == c \in SpaceChars

IsDigit(c) == c \in DigitChars

IsLowerAlpha(c) == c \in LowerChars

IsUpperAlpha(c) == c \in UpperChars

\* \w of the re module, on the characters the model uses
IsWordChar(c) == IsLowerAlpha(c) \/ IsUpperAlpha(c) \/ IsDigit(c) \/ c = "_"

ToLower == [c \in UpperChars |-> Ch(LowerAlpha, PosIn(c, UpperAlpha))]

ToUpper == [c \in LowerChars |-> Ch(UpperAlpha, PosIn(c, LowerAlpha))]

DigitValue == [c \in DigitChars |-> PosIn(c, Digits) - 1]

LowerChar(c) == IF IsUpperAlpha(c) THEN ToLower[c] ELSE c

UpperChar(c) == IF IsLowerAlpha(c) THEN ToUpper[c] ELSE c

RECURSIVE Lower(_)
\* str.lower()
Lower(s) == IF Len(s) = 0 THEN "" ELSE LowerChar(Ch(s, 1)) \o Lower(Tail0(s, 2))

RECURSIVE Upper(_)
\* str.upper()
Upper(s) == IF Len(s) = 0 THEN "" ELSE UpperChar(Ch(s, 1)) \o Upper(Tail0(s, 2))

\* str.capitalize(): first character upper, the rest lower
Capitalize(s) == IF Len(s) = 0 THEN "" ELSE UpperChar(Ch(s, 1)) \o Lower(Tail0(s, 2))

RECURSIVE LStrip(_)
LStrip(s) == IF Len(s) > 0 /\ IsSpace(Ch(s, 1)) THEN LStrip(Tail0(s, 2)) ELSE s

RECURSIVE RStrip(_)
RStrip(s) == IF Len(s) > 0 /\ IsSpace(Ch(s, Len(s))) THEN RStrip(SubSeq(s, 1, Len(s) - 1)) ELSE s

\* str.strip()
Strip(s) == RStrip(LStrip(s))

\* sub == s[i : i + len(sub)]
StartsAt(s, i, sub) ==
    /\ i >= 1
    /\ i + Len(sub) - 1 <= Len(s)
    /\ SubSeq(s, i, i + Len(sub) - 1) = sub

\* the "in" operator on strings
Contains(s, sub) == \E i \in 1..(Len(s) - Len(sub) + 1) : StartsAt(s, i, sub)

RECURSIVE ReplaceAll(_, _, _)
\* str.replace(old, new), old non-empty
ReplaceAll(s, old, new) ==
    IF Len(s) = 0 THEN ""
    ELSE IF StartsAt(s, 1, old) THEN new \o ReplaceAll(Tail0(s, Len(old) + 1), old, new)
    ELSE Ch(s, 1) \o ReplaceAll(Tail0(s, 2), old, new)

RECURSIVE JoinWith(_, _)
\* sep.join(parts)
JoinWith(parts, sep) ==
    IF Len(parts) = 0 THEN ""
    ELSE IF Len(parts) = 1 THEN parts[1]
    ELSE parts[1] \o sep \o JoinWith(Tail(parts), sep)

RECURSIVE SplitLines(_)
\* str.splitlines() (line break "\n"; no empty last line after a final break)
SplitLines(s) ==
    IF Len(s) = 0 THEN << >>
    ELSE IF \E k \in 1..Len(s) : Ch(s, k) = "\n"
         THEN LET k == CHOOSE j \in 1..Len(s) :
                          /\ Ch(s, j) = "\n"
                          /\ \A h \in 1..(j - 1) : Ch(s, h) # "\n"
              IN  <<SubSeq(s, 1, k - 1)>> \o SplitLines(Tail0(s, k + 1))
         ELSE <<s>>

\* index after the longest run of characters satisfying a class, from i
RECURSIVE SkipSpaces(_, _)
SkipSpaces(s, i) == IF i <= Len(s) /\ IsSpace(Ch(s, i)) THEN SkipSpaces(s, i + 1) ELSE i

Min(a, b) == IF a <= b THEN a ELSE b


CharAt(s, i) == IF i >= 1 /\ i <= Len(s) THEN Ch(s, i) ELSE ""

(***************************************************************************)
(* Document and dataset storage (the folders health_pdfs, health_csvs and  *)
(* vectorstores).  A file of health_pdfs is                                *)
(*   "pdf"     a readable document with its pages' text,                   *)
(*   "corrupt" a file fitz and PyPDFLoader cannot open,                    *)
(*   "denied"  a name whose stat fails with EACCES (Path.exists raises     *)
(*             PermissionError: a link into an unsearchable directory),    *)
(*   "missing" no such file.                                               *)
(***************************************************************************)
PdfErrorMark == "a^"

CsvErrorMark == "(x)"

PDF_FOLDER == "health_pdfs"

CSV_FOLDER == "health_csvs"

MissingPdf == [kind |-> "missing", pages |-> << >>]

DeniedPdf == [kind |-> "denied", pages |-> << >>]

CorruptPdf == [kind |-> "corrupt", pages |-> << >>]

GuidePdf == [kind |-> "pdf", pages |-> <<"ANC1_HTS women tested\nART_INIT started ART">>]

InvoicePdf == [kind |-> "pdf", pages |-> <<"Invoice 7\nGrand Total: $12.50">>]

NoIndex == [kind |-> "absent", pages |-> << >>, src |-> ""]

\* Path.exists() of PDF_FOLDER / pdf_filename; "raise" is PermissionError
PdfExists(file) == file.kind \in {"pdf", "corrupt"}

RECURSIVE PagesText(_)
PagesText(pages) == IF Len(pages) = 0 THEN "" ELSE pages[1] \o "\n" \o PagesText(Tail(pages))

\* pdf_utils.extract_pdf_text
extract_pdf_text(file) ==
    IF file.kind = "corrupt" THEN PdfErrorMark \o " Error reading PDF: cannot open"
    ELSE PagesText(file.pages)

RECURSIVE SkipAmountChars(_, _)
\* [\d,]* from i
SkipAmountChars(s, i) ==
    IF i <= Len(s) /\ (IsDigit(Ch(s, i)) \/ Ch(s, i) = ",") THEN SkipAmountChars(s, i + 1) ELSE i

\* \s*[:\-]?\s*\$?\s*([\d,]+\.\d{2}) matched at i: the captured group, "" when no match
AmountAt(s, i) ==
    LET j1 == SkipSpaces(s, i)
        j2 == IF CharAt(s, j1) \in {":", "-"} THEN j1 + 1 ELSE j1
        j3 == SkipSpaces(s, j2)
        j4 == IF CharAt(s, j3) = "$" THEN j3 + 1 ELSE j3
        j5 == SkipSpaces(s, j4)
        e  == SkipAmountChars(s, j5)
    IN  IF /\ e > j5
           /\ CharAt(s, e) = "."
           /\ CharAt(s, e + 1) # "" /\ IsDigit(CharAt(s, e + 1))
           /\ CharAt(s, e + 2) # "" /\ IsDigit(CharAt(s, e + 2))
        THEN SubSeq(s, j5, e + 2)
        ELSE ""

\* one pattern of find_total_price at position i of text (lt: text lowercased, for
\* re.IGNORECASE): the words w1 w2 separated as the pattern says, then the amount
TotalPatternAt(text, lt, i, w1, w2, sep) ==
    LET a  == i + Len(w1)
        b  == IF sep = "ws" THEN SkipSpaces(text, a)
              ELSE IF sep = "sp" THEN (IF CharAt(text, a) = " " THEN a + 1 ELSE 0)
              ELSE a
    IN  IF StartsAt(lt, i, w1) /\ b > 0 /\ StartsAt(lt, b, w2)
        THEN AmountAt(text, b + Len(w2))
        ELSE ""

\* re.search of one pattern: the leftmost match's group, "" when none
TotalPatternSearch(text, w1, w2, sep) ==
    LET lt   == Lower(text)
        hits == {i \in 1..Len(text) : TotalPatternAt(text, lt, i, w1, w2, sep) # ""}
    IN  IF hits = {} THEN ""
        ELSE TotalPatternAt(text, lt, CHOOSE i \in hits : \A j \in hits : i <= j, w1, w2, sep)

TotalPatterns ==
    << <<"total", "", "none">>,
       <<"grand", "total", "ws">>,
       <<"amount", "due", "ws">>,
       <<"total", "price", "sp">> >>

RECURSIVE FirstTotal(_, _)
FirstTotal(text, k) ==
    IF k > Len(TotalPatterns) THEN ""
    ELSE LET p == TotalPatterns[k]
             g == TotalPatternSearch(text, p[1], p[2], p[3])
         IN  IF g # "" THEN g ELSE FirstTotal(text, k + 1)

\* pdf_utils.find_total_price ("" is None)
find_total_price(text) == FirstTotal(text, 1)

TotalKeywords == {"total", "grand total", "amount due", "total price"}

\* re.search(r"\b(total|grand total|amount due|total price)\b", query, re.IGNORECASE)
IsTotalQuery(query) ==
    LET lq == Lower(query)
    IN  \E kw \in TotalKeywords : \E i \in 1..Len(lq) :
            /\ StartsAt(lq, i, kw)
            /\ ~IsWordChar(CharAt(lq, i - 1)) \/ i = 1
            /\ ~IsWordChar(CharAt(lq, i + Len(kw))) \/ i + Len(kw) > Len(lq)

\* [A-Z0-9_]
IsCodeChar(c) == IsUpperAlpha(c) \/ IsDigit(c) \/ c = "_"

\* re.match(r"^[A-Z0-9_]+$", query.strip())
IsCodeQuery(query) ==
    LET s == Strip(query)
    IN  Len(s) >= 1 /\ \A i \in 1..Len(s) : IsCodeChar(Ch(s, i))

\* pdf_utils.lookup_pdf_indicator
lookup_pdf_indicator(pdf_filename, code, file) ==
    IF ~PdfExists(file) THEN PdfErrorMark \o " PDF not found: " \o PDF_FOLDER \o "/" \o pdf_filename
    ELSE LET text    == extract_pdf_text(file)
             lines   == SplitLines(text)
             matches == SelectSeq(lines, LAMBDA line : Contains(line, code))
             first3  == SubSeq(matches, 1, Min(3, Len(matches)))
             marked  == [k \in 1..Len(first3) |->
                            ReplaceAll(Strip(first3[k]), code, "**" \o code \o "**")]
         IN  IF text = "" THEN PdfErrorMark \o " Could not extract text from PDF."
             ELSE IF Len(matches) > 0 THEN JoinWith(marked, "\n")
             ELSE "No definition for '" \o code \o "' found in " \o pdf_filename \o "."

RECURSIVE LastDot(_, _)
LastDot(name, i) == IF i = 0 THEN 0 ELSE IF Ch(name, i) = "." THEN i ELSE LastDot(name, i - 1)

\* pathlib's Path(name).stem: the name without its last suffix
Stem(name) ==
    LET d == LastDot(name, Len(name))
    IN  IF d <= 1 \/ d = Len(name) THEN name ELSE SubSeq(name, 1, d - 1)


(***************************************************************************)
(* csv_utils.py: the Tabular Matcher.                                      *)
(* A file of health_csvs is "missing" or a table: its column names and its *)
(* rows, each cell the text pandas reads.  A column all of whose cells     *)
(* read as numbers (or are empty) gets a numeric dtype, any other the      *)
(* dtype object.                                                           *)
(***************************************************************************)
MissingCsv == [kind |-> "missing", cols |-> {}, rows |-> << >>]

NormalizedCols ==
    {"PatientID", "Name", "Diagnosis", "Treatment", "Facility", "Region", "Cost", "VisitDate"}

RECURSIVE AllDigits(_)
AllDigits(s) == Len(s) = 0 \/ (IsDigit(Ch(s, 1)) /\ AllDigits(Tail0(s, 2)))

\* position of the first "." of s, 0 when none
DotPos(s) ==
    IF \E k \in 1..Len(s) : Ch(s, k) = "."
    THEN CHOOSE k \in 1..Len(s) : Ch(s, k) = "." /\ \A h \in 1..(k - 1) : Ch(s, h) # "."
    ELSE 0

\* a cell pandas parses as a number: digits, optionally "." and one or two digits
IsNumberCell(raw) ==
    LET d == DotPos(raw)
    IN  IF d = 0 THEN Len(raw) >= 1 /\ AllDigits(raw)
        ELSE /\ d >= 2 /\ AllDigits(SubSeq(raw, 1, d - 1))
             /\ Len(raw) - d \in {1, 2} /\ AllDigits(Tail0(raw, d + 1))

RECURSIVE DigitsValue(_)
DigitsValue(s) ==
    IF Len(s) = 0 THEN 0
    ELSE 10 * DigitsValue(SubSeq(s, 1, Len(s) - 1)) + DigitValue[Ch(s, Len(s))]

\* pd.to_numeric(errors="coerce").fillna(0.0), in hundredths
ToNumericCents(raw) ==
    LET t == Strip(raw)
        d == DotPos(t)
    IN  IF ~IsNumberCell(t) THEN 0
        ELSE IF d = 0 THEN 100 * DigitsValue(t)
        ELSE 100 * DigitsValue(SubSeq(t, 1, d - 1))
             + (IF Len(t) - d = 1 THEN 10 * DigitsValue(Tail0(t, d + 1))
                ELSE DigitsValue(Tail0(t, d + 1)))

\* f"{value:.2f}" of a value held in hundredths
Format2f(cents) ==
    ToString(cents \div 100) \o "." \o ToString((cents % 100) \div 10) \o ToString(cents % 10)

\* dtype of a column as read_csv infers it
Dtype(file, col) ==
    IF \A k \in 1..Len(file.rows) : file.rows[k][col] = "" \/ IsNumberCell(file.rows[k][col])
    THEN "number" ELSE "object"

\* csv_utils._load_csv for a file that exists: the DataFrame
load_csv(file) ==
    [cols  |-> file.cols,
     dtype |-> [c \in file.cols |-> Dtype(file, c)],
     rows  |-> [k \in 1..Len(file.rows) |->
                  [c \in file.cols |->
                      IF c \in NormalizedCols /\ Dtype(file, c) = "object"
                      THEN (IF file.rows[k][c] = "" THEN "nan" ELSE Strip(file.rows[k][c]))
                      ELSE file.rows[k][c]]],
     cost  |-> [k \in 1..Len(file.rows) |->
                  IF "Cost" \in file.cols THEN ToNumericCents(file.rows[k]["Cost"]) ELSE 0]]

\* csv_utils._icontains on one cell
icontains(cell, text) == Contains(Lower(cell), Lower(text))

RECURSIVE Unique(_, _)
\* pd.unique: first occurrences, in order
Unique(values, seen) ==
    IF Len(values) = 0 THEN << >>
    ELSE IF values[1] \in seen THEN Unique(Tail(values), seen)
    ELSE <<values[1]>> \o Unique(Tail(values), seen \cup {values[1]})

NoMatchingData == "No matching data found in CSV."

\* _clean_answer without pd.unique: repeated values are kept
clean_answer_repeats(values) ==
    LET kept == SelectSeq(values, LAMBDA v : Strip(v) # "")
    IN  IF Len(kept) > 0 THEN JoinWith(kept, ", ") ELSE NoMatchingData

\* csv_utils._clean_answer
clean_answer(values) ==
    LET uniq == SelectSeq(Unique(values, {}), LAMBDA v : Strip(v) # "")
    IN  IF Len(uniq) > 0 THEN JoinWith(uniq, ", ") ELSE NoMatchingData

\* the indexes of the rows satisfying a test, in table order
RowsWhere(df, Test(_)) == SelectSeq([k \in 1..Len(df.rows) |-> k], Test)

ColumnOf(df, idx, col) == [k \in 1..Len(idx) |-> df.rows[idx[k]][col]]

\* \s+ at i: the index after it, 0 when no whitespace at i
WsPlus(s, i) == IF i >= 1 /\ IsSpace(CharAt(s, i)) THEN SkipSpaces(s, i) ELSE 0

\* a literal at i: the index after it, 0 when absent
Lit(s, i, lit) == IF i >= 1 /\ StartsAt(s, i, lit) THEN i + Len(lit) ELSE 0

RECURSIVE Words(_, _, _)
\* literals separated by \s+, from i: the index after the last, 0 when no match
Words(s, i, lits) ==
    IF Len(lits) = 0 THEN i
    ELSE LET a == Lit(s, i, lits[1])
         IN  IF a = 0 THEN 0
             ELSE IF Len(lits) = 1 THEN a
             ELSE Words(s, WsPlus(s, a), Tail(lits))

\* the first alternative (a sequence of literals) that matches at i
RECURSIVE AnyWords(_, _, _)
AnyWords(s, i, alts) ==
    IF Len(alts) = 0 THEN 0
    ELSE IF Words(s, i, alts[1]) # 0 THEN Words(s, i, alts[1])
    ELSE AnyWords(s, i, Tail(alts))

IsIdChar(c) == IsLowerAlpha(c) \/ IsDigit(c) \/ c = "-"

RECURSIVE SkipIdChars(_, _)
\* [a-z0-9\-]* from i
SkipIdChars(s, i) == IF i <= Len(s) /\ IsIdChar(Ch(s, i)) THEN SkipIdChars(s, i + 1) ELSE i

RECURSIVE SkipLetters(_, _)
\* [a-z]* from i
SkipLetters(s, i) == IF i <= Len(s) /\ IsLowerAlpha(Ch(s, i)) THEN SkipLetters(s, i + 1) ELSE i

LeastOf(S) == CHOOSE i \in S : \A j \in S : i <= j

GreatestOf(S) == CHOOSE i \in S : \A j \in S : i >= j

NoGroup == [found |-> FALSE, g1 |-> "", g2 |-> ""]

Group1(g) == [found |-> TRUE, g1 |-> g, g2 |-> ""]

\* re.search(r"treatment\s+(?:for|of)\s+patient\s+([a-z0-9\-]+)", ql)
Pattern1At(ql, p) ==
    LET a == AnyWords(ql, p, << <<"treatment", "for", "patient">>, <<"treatment", "of", "patient">> >>)
        j == WsPlus(ql, a)
    IN  IF a # 0 /\ j # 0 /\ SkipIdChars(ql, j) > j
        THEN Group1(SubSeq(ql, j, SkipIdChars(ql, j) - 1))
        ELSE NoGroup

Search(ql, At(_, _)) ==
    LET hits == {p \in 1..Len(ql) : At(ql, p).found}
    IN  IF hits = {} THEN NoGroup ELSE At(ql, LeastOf(hits))

\* (.+?)\??$ from i: the group, "" when it cannot match ("." takes no line break)
LazyToEnd(ql, i) ==
    LET r == Tail0(ql, i)
        g == IF Len(r) >= 2 /\ Ch(r, Len(r)) = "?" THEN SubSeq(r, 1, Len(r) - 1) ELSE r
    IN  IF i >= 1 /\ Len(r) >= 1 /\ ~Contains(r, "\n") THEN g ELSE ""

\* re.search(r"who\s+was\s+treated\s+at\s+(.+?)\s+for\s+(.+?)\??$", ql)
Pattern2At(ql, p) ==
    LET a == WsPlus(ql, Words(ql, p, <<"who", "was", "treated", "at">>))
    IN  IF a = 0 THEN NoGroup
        ELSE LET \* group 2 when group 1 ends at e: \s+for\s+ follows, then (.+?)\??$
                 Rest(e) == LazyToEnd(ql, WsPlus(ql, Lit(ql, WsPlus(ql, e + 1), "for")))
                 \* ends e of group 1 (a..e), shortest first
                 ends == {e \in a..Len(ql) :
                             ~Contains(SubSeq(ql, a, e), "\n") /\ Rest(e) # ""}
             IN  IF ends = {} THEN NoGroup
                 ELSE [found |-> TRUE,
                       g1 |-> SubSeq(ql, a, LeastOf(ends)),
                       g2 |-> Rest(LeastOf(ends))]

\* \s+(?:the\s+)?([a-z]+)\s+region from i (after "in" or "for"): the group
RegionAfter(ql, i) ==
    LET j    == WsPlus(ql, i)
        t    == WsPlus(ql, Lit(ql, j, "the"))
        With(k) == IF k # 0 /\ SkipLetters(ql, k) > k
                      /\ Lit(ql, WsPlus(ql, SkipLetters(ql, k)), "region") # 0
                   THEN SubSeq(ql, k, SkipLetters(ql, k) - 1) ELSE ""
    IN  IF With(t) # "" THEN With(t) ELSE With(j)

\* re.search(r"(?:total\s+cost|sum\s+of\s+costs?).*?(?:in|for)\s+(?:the\s+)?([a-z]+)\s+region", ql)
Pattern3At(ql, p) ==
    LET a == AnyWords(ql, p, << <<"total", "cost">>, <<"sum", "of", "cost">> >>)
    IN  IF a = 0 THEN NoGroup
        ELSE LET \* the group when (?:in|for) starts at k
                 Region(k) == IF RegionAfter(ql, Lit(ql, k, "in")) # ""
                              THEN RegionAfter(ql, Lit(ql, k, "in"))
                              ELSE RegionAfter(ql, Lit(ql, k, "for"))
                 \* starts k of (?:in|for), nearest first; ".*?" takes no line break
                 ks == {k \in a..Len(ql) :
                           ~Contains(SubSeq(ql, a, k - 1), "\n") /\ Region(k) # ""}
             IN  IF ks = {} THEN NoGroup ELSE Group1(Region(LeastOf(ks)))

\* re.search(r"(?:list\s+all\s+)?patients\s+(?:diagnosed\s+with|with)\s+(.+?)\??$", ql)
Pattern4At(ql, p) ==
    LET a == AnyWords(ql, p, << <<"list", "all", "patients", "diagnosed", "with">>,
                                <<"list", "all", "patients", "with">>,
                                <<"patients", "diagnosed", "with">>,
                                <<"patients", "with">> >>)
        g == LazyToEnd(ql, WsPlus(ql, a))
    IN  IF a # 0 /\ g # "" THEN Group1(g) ELSE NoGroup

\* re.search(r"(?:cost|bill|amount\s+due).*(?:for\s+patient\s+)([a-z0-9\-]+)", ql)
Pattern5At(ql, p) ==
    LET a == AnyWords(ql, p, << <<"cost">>, <<"bill">>, <<"amount", "due">> >>)
    IN  IF a = 0 THEN NoGroup
        ELSE LET \* where the identifier starts when "for patient" starts at k, 0 when it does not
                 IdAt(k) == WsPlus(ql, Words(ql, k, <<"for", "patient">>))
                 \* starts k of "for patient", farthest first; ".*" takes no line break
                 ks == {k \in a..Len(ql) :
                           /\ ~Contains(SubSeq(ql, a, k - 1), "\n")
                           /\ IdAt(k) # 0
                           /\ SkipIdChars(ql, IdAt(k)) > IdAt(k)}
                 j  == IdAt(GreatestOf(ks))
             IN  IF ks = {} THEN NoGroup
                 ELSE Group1(SubSeq(ql, j, SkipIdChars(ql, j) - 1))

RECURSIVE SkipNonWord(_, _)
SkipNonWord(s, i) == IF i <= Len(s) /\ ~IsWordChar(Ch(s, i)) THEN SkipNonWord(s, i + 1) ELSE i

RECURSIVE SkipWord(_, _)
SkipWord(s, i) == IF i <= Len(s) /\ IsWordChar(Ch(s, i)) THEN SkipWord(s, i + 1) ELSE i

RECURSIVE WordTokens(_, _)
\* the non-empty pieces of re.split(r"\W+", s), from i
WordTokens(s, i) ==
    LET a == SkipNonWord(s, i)
        b == SkipWord(s, a)
    IN  IF a > Len(s) THEN << >> ELSE <<SubSeq(s, a, b - 1)>> \o WordTokens(s, b)

BroadCols == <<"PatientID", "Name", "Diagnosis", "Treatment", "Facility", "Region">>

RECURSIVE SumCost(_, _)
SumCost(df, idx) == IF Len(idx) = 0 THEN 0 ELSE df.cost[idx[1]] + SumCost(df, Tail(idx))

Returned(resp) == [raised |-> FALSE, resp |-> resp]

\* an exception leaves the matcher
Raised == [raised |-> TRUE, resp |-> ""]

\* Pattern 1 of query_csv, lines 63-67 (Series.str raises AttributeError on a numeric column)
Pattern1(df, m) ==
    LET pid == Upper(m.g1)
        row == RowsWhere(df, LAMBDA k : Upper(df.rows[k]["PatientID"]) = pid)
    IN  IF df.dtype["PatientID"] # "object" THEN Raised
        ELSE IF Len(row) > 0 THEN Returned(df.rows[row[1]]["Treatment"])
        ELSE Returned("No matching patient " \o pid \o " in CSV.")

\* Pattern 2 of query_csv, lines 73-78
Pattern2(df, m) ==
    LET facility  == Strip(m.g1)
        diagnosis == Strip(m.g2)
        sub == RowsWhere(df, LAMBDA k : /\ icontains(df.rows[k]["Facility"], facility)
                                        /\ icontains(df.rows[k]["Diagnosis"], diagnosis))
    IN  IF Len(sub) > 0 THEN Returned(clean_answer(ColumnOf(df, sub, "Name")))
        ELSE Returned("No patients treated at '" \o facility \o "' for '" \o diagnosis \o "'.")

\* pattern 3 giving the no-match sentinel when no row is of the region
Pattern3_sentinel(df, m) ==
    LET region == Strip(m.g1)
        sub    == RowsWhere(df, LAMBDA k : icontains(df.rows[k]["Region"], region))
    IN  IF Len(sub) = 0 THEN Returned(NoMatchingData)
        ELSE Returned("Total cost in " \o Capitalize(region) \o " region: "
                         \o Format2f(SumCost(df, sub)))

\* Pattern 3 of query_csv, lines 84-87
Pattern3(df, m) ==
    LET region == Strip(m.g1)
        sub    == RowsWhere(df, LAMBDA k : icontains(df.rows[k]["Region"], region))
        total  == IF Len(sub) > 0 THEN SumCost(df, sub) ELSE 0
    IN  Returned("Total cost in " \o Capitalize(region) \o " region: " \o Format2f(total))

\* Pattern 4 of query_csv, lines 93-99
Pattern4(df, m) ==
    LET dx  == Strip(m.g1)
        sub == RowsWhere(df, LAMBDA k : icontains(df.rows[k]["Diagnosis"], dx))
    IN  IF Len(sub) > 0 THEN Returned(clean_answer(ColumnOf(df, sub, "Name")))
        ELSE Returned("No patients diagnosed with '" \o dx \o "'.")

\* Pattern 5 of query_csv, lines 104-108
Pattern5(df, m) ==
    LET pid == Upper(m.g1)
        row == RowsWhere(df, LAMBDA k : Upper(df.rows[k]["PatientID"]) = pid)
    IN  IF df.dtype["PatientID"] # "object" THEN Raised
        ELSE IF Len(row) > 0 THEN Returned(Format2f(df.cost[row[1]]))
        ELSE Returned("No matching patient " \o pid \o " in CSV.")

\* the broad fallback with a row qualifying as soon as one token is found in it
BroadFallback_any_token(df, ql) ==
    LET cols   == SelectSeq(BroadCols, LAMBDA c : c \in df.cols)
        tokens == SelectSeq(WordTokens(ql, 1), LAMBDA t : Len(t) > 3)
        sub    == IF Len(tokens) = 0 THEN << >>
                  ELSE RowsWhere(df, LAMBDA k :
                           \E n \in 1..Len(tokens) : \E c \in 1..Len(cols) :
                               icontains(df.rows[k][cols[c]], tokens[n]))
    IN  IF Len(cols) > 0 /\ Len(sub) > 0 /\ "Name" \in df.cols
        THEN Returned(clean_answer(ColumnOf(df, sub, "Name")))
        ELSE IF Len(cols) > 0 /\ Len(sub) > 0 /\ "PatientID" \in df.cols
        THEN Returned(clean_answer(ColumnOf(df, sub, "PatientID")))
        ELSE Returned(NoMatchingData)

\* the broad fallback of query_csv, lines 111-130
BroadFallback(df, ql) ==
    LET cols   == SelectSeq(BroadCols, LAMBDA c : c \in df.cols)
        tokens == SelectSeq(WordTokens(ql, 1), LAMBDA t : Len(t) > 3)
        sub    == IF Len(tokens) = 0 THEN << >>
                  ELSE RowsWhere(df, LAMBDA k :
                           \A n \in 1..Len(tokens) : \E c \in 1..Len(cols) :
                               icontains(df.rows[k][cols[c]], tokens[n]))
    IN  IF Len(cols) > 0 /\ Len(sub) > 0 /\ "Name" \in df.cols
        THEN Returned(clean_answer(ColumnOf(df, sub, "Name")))
        ELSE IF Len(cols) > 0 /\ Len(sub) > 0 /\ "PatientID" \in df.cols
        THEN Returned(clean_answer(ColumnOf(df, sub, "PatientID")))
        ELSE Returned(NoMatchingData)

\* query_csv with pattern 5 applied as soon as the table has identifiers, whether or
\* not it has costs
query_csv_partial(csv_filename, query, file) ==
    IF file.kind = "missing"
    THEN Returned(CsvErrorMark \o " Error loading CSV: CSV not found: "
                     \o CSV_FOLDER \o "/" \o csv_filename)
    ELSE LET df == load_csv(file)
             ql == Lower(Strip(query))
             m1 == Search(ql, Pattern1At)
             m2 == Search(ql, Pattern2At)
             m3 == Search(ql, Pattern3At)
             m4 == Search(ql, Pattern4At)
             m5 == Search(ql, Pattern5At)
         IN  IF m1.found /\ {"PatientID", "Treatment"} \subseteq df.cols THEN Pattern1(df, m1)
             ELSE IF m2.found /\ {"Facility", "Diagnosis", "Name"} \subseteq df.cols
                  THEN Pattern2(df, m2)
             ELSE IF m3.found /\ {"Region", "Cost"} \subseteq df.cols THEN Pattern3(df, m3)
             ELSE IF m4.found /\ {"Diagnosis", "PatientID", "Name"} \subseteq df.cols
                  THEN Pattern4(df, m4)
             ELSE IF m5.found /\ {"PatientID"} \subseteq df.cols THEN Pattern5(df, m5)
             ELSE BroadFallback(df, ql)

\* query_csv with the total-cost pattern tried before the others
query_csv_region_first(csv_filename, query, file) ==
    IF file.kind = "missing"
    THEN Returned(CsvErrorMark \o " Error loading CSV: CSV not found: "
                     \o CSV_FOLDER \o "/" \o csv_filename)
    ELSE LET df == load_csv(file)
             ql == Lower(Strip(query))
             m1 == Search(ql, Pattern1At)
             m2 == Search(ql, Pattern2At)
             m3 == Search(ql, Pattern3At)
             m4 == Search(ql, Pattern4At)
             m5 == Search(ql, Pattern5At)
         IN  IF m3.found /\ {"Region", "Cost"} \subseteq df.cols THEN Pattern3(df, m3)
             ELSE IF m1.found /\ {"PatientID", "Treatment"} \subseteq df.cols
                  THEN Pattern1(df, m1)
             ELSE IF m2.found /\ {"Facility", "Diagnosis", "Name"} \subseteq df.cols
                  THEN Pattern2(df, m2)
             ELSE IF m4.found /\ {"Diagnosis", "PatientID", "Name"} \subseteq df.cols
                  THEN Pattern4(df, m4)
             ELSE IF m5.found /\ {"PatientID", "Cost"} \subseteq df.cols THEN Pattern5(df, m5)
             ELSE BroadFallback(df, ql)

\* csv_utils.query_csv on the file CSV_FOLDER / csv_filename
query_csv(csv_filename, query, file) ==
    IF file.kind = "missing"
    THEN Returned(CsvErrorMark \o " Error loading CSV: CSV not found: "
                     \o CSV_FOLDER \o "/" \o csv_filename)
    ELSE LET df == load_csv(file)
             ql == Lower(Strip(query))
             m1 == Search(ql, Pattern1At)
             m2 == Search(ql, Pattern2At)
             m3 == Search(ql, Pattern3At)
             m4 == Search(ql, Pattern4At)
             m5 == Search(ql, Pattern5At)
         IN  IF m1.found /\ {"PatientID", "Treatment"} \subseteq df.cols THEN Pattern1(df, m1)
             ELSE IF m2.found /\ {"Facility", "Diagnosis", "Name"} \subseteq df.cols
                  THEN Pattern2(df, m2)
             ELSE IF m3.found /\ {"Region", "Cost"} \subseteq df.cols THEN Pattern3(df, m3)
             ELSE IF m4.found /\ {"Diagnosis", "PatientID", "Name"} \subseteq df.cols
                  THEN Pattern4(df, m4)
             ELSE IF m5.found /\ {"PatientID", "Cost"} \subseteq df.cols THEN Pattern5(df, m5)
             ELSE BroadFallback(df, ql)

PatientsCsv ==
    [kind |-> "table",
     cols |-> {"PatientID", "Name", "Diagnosis", "Treatment", "Facility", "Region", "Cost"},
     rows |-> << [PatientID |-> "P003", Name |-> "Asha", Diagnosis |-> "Anemia",
                  Treatment |-> "Insulin", Facility |-> "Clinic D", Region |-> "North",
                  Cost |-> "10.50"],
                 [PatientID |-> "P004", Name |-> "Bimal", Diagnosis |-> "Anemia",
                  Treatment |-> "  ", Facility |-> "Clinic D", Region |-> "South",
                  Cost |-> "n/a"] >>]

\* a table whose identifiers are numbers: PatientID gets a numeric dtype
VisitsCsv ==
    [kind |-> "table",
     cols |-> {"PatientID", "Treatment", "Cost"},
     rows |-> << [PatientID |-> "7", Treatment |-> "Iron", Cost |-> "3"] >>]

(***************************************************************************)
(* pdf_utils.py: the semantic index and the Document Matcher.              *)
(* An index holds the pages it was built from and, as FAISS keeps each     *)
(* page's "source" metadata, the name of the document they came from.      *)
(* The retriever's ranking is taken to be page order.                      *)
(***************************************************************************)
TopK == 3

SnippetLen == 300

MoneyMark == "($)"

WarnMark == "(!)"

DocMark == "(doc)"

ThinkMark == "(?)"

\* line 79: the directory of vectorstores that holds the index of a document
vectorstore_file(pdf_filename) == Stem(pdf_filename)

\* a build_or_load_vectorstore without the exists() test of line 81: it builds every time
build_vectorstore_always(pdf_filename, file, persisted) ==
    LET built == [kind |-> "index", pages |-> file.pages, src |-> pdf_filename]
    IN  IF file.kind # "pdf"
        THEN [ev |-> "failed", index |-> [kind |-> "absent", pages |-> << >>, src |-> ""],
              saved |-> persisted]
        ELSE [ev |-> "built", index |-> built, saved |-> built]

\* lines 81-93: the outcome of build_or_load_vectorstore for PDF_FOLDER / pdf_filename,
\* given what vectorstore_file holds (persisted): ev is "loaded", "built" or "failed"
\* (loader.load raised), index the vectorstore returned, saved what the directory holds after
build_or_load_vectorstore(pdf_filename, file, persisted) ==
    LET built == [kind |-> "index", pages |-> file.pages, src |-> pdf_filename]
    IN  IF persisted.kind = "index"
        THEN [ev |-> "loaded", index |-> persisted, saved |-> persisted]
        ELSE IF file.kind # "pdf"
        THEN [ev |-> "failed", index |-> NoIndex, saved |-> persisted]
        ELSE [ev |-> "built", index |-> built, saved |-> built]

\* lines 132-133
Snippet(content) ==
    LET t == ReplaceAll(Strip(content), "\n", " ")
    IN  IF Len(t) > SnippetLen THEN SubSeq(t, 1, SnippetLen) \o "..." ELSE t

\* lines 126-135: the answer built from the retrieved passages
SemanticAnswer(index) ==
    LET docs == SubSeq(index.pages, 1, Min(TopK, Len(index.pages)))
    IN  JoinWith([n \in 1..Len(docs) |->
                    DocMark \o " Result " \o ToString(n) \o ": " \o Snippet(docs[n])], "\n\n")

PdfOutcome(raised, resp, b) ==
    [raised |-> raised, resp |-> resp, ev |-> b.ev, index |-> b.index, saved |-> b.saved]

\* the index directory untouched
Untouched(persisted) == [ev |-> "none", index |-> NoIndex, saved |-> persisted]

\* query_pdf loading or building the index before it looks at the query
query_pdf_index_first(pdf_filename, query, file, persisted) ==
    IF file.kind = "denied" THEN PdfOutcome(TRUE, "", Untouched(persisted))
    ELSE IF ~PdfExists(file)
    THEN PdfOutcome(FALSE, PdfErrorMark \o " PDF file " \o pdf_filename \o " not found.",
                    Untouched(persisted))
    ELSE LET b     == build_or_load_vectorstore(pdf_filename, file, persisted)
             total == find_total_price(extract_pdf_text(file))
         IN  IF IsTotalQuery(query) /\ total # ""
             THEN PdfOutcome(FALSE, MoneyMark \o " The total price in **" \o pdf_filename
                                       \o "** is **$" \o total \o "**.", b)
             ELSE IF IsTotalQuery(query)
             THEN PdfOutcome(FALSE, WarnMark \o " No total price was detected in the document.", b)
             ELSE IF IsCodeQuery(query)
             THEN PdfOutcome(FALSE, lookup_pdf_indicator(pdf_filename, Strip(query), file), b)
             ELSE IF b.ev = "failed"
             THEN PdfOutcome(FALSE, PdfErrorMark \o " Error during semantic search: cannot open", b)
             ELSE IF Len(b.index.pages) > 0
             THEN PdfOutcome(FALSE, SemanticAnswer(b.index), b)
             ELSE PdfOutcome(FALSE, ThinkMark \o " I could not find anything relevant to '"
                                       \o query \o "' in " \o pdf_filename \o ".", b)

\* pdf_utils.query_pdf on the file PDF_FOLDER / pdf_filename, given what the
\* document's index directory holds
query_pdf(pdf_filename, query, file, persisted) ==
    IF file.kind = "denied" THEN PdfOutcome(TRUE, "", Untouched(persisted))
    ELSE IF ~PdfExists(file)
    THEN PdfOutcome(FALSE, PdfErrorMark \o " PDF file " \o pdf_filename \o " not found.",
                    Untouched(persisted))
    ELSE IF IsTotalQuery(query)
    THEN LET total == find_total_price(extract_pdf_text(file))
         IN  IF total # ""
             THEN PdfOutcome(FALSE, MoneyMark \o " The total price in **" \o pdf_filename
                                       \o "** is **$" \o total \o "**.", Untouched(persisted))
             ELSE PdfOutcome(FALSE, WarnMark \o " No total price was detected in the document.",
                             Untouched(persisted))
    ELSE IF IsCodeQuery(query)
    THEN PdfOutcome(FALSE, lookup_pdf_indicator(pdf_filename, Strip(query), file),
                    Untouched(persisted))
    ELSE LET b == build_or_load_vectorstore(pdf_filename, file, persisted)
         IN  IF b.ev = "failed"
             THEN PdfOutcome(FALSE, PdfErrorMark \o " Error during semantic search: cannot open", b)
             ELSE IF Len(b.index.pages) > 0
             THEN PdfOutcome(FALSE, SemanticAnswer(b.index), b)
             ELSE PdfOutcome(FALSE, ThinkMark \o " I could not find anything relevant to '"
                                       \o query \o "' in " \o pdf_filename \o ".", b)

(***************************************************************************)
(* custom_tasks.py: the intent predicates and the router's tests           *)
(***************************************************************************)
CSV_KEYWORDS ==
    {"patient", "patientid", "diagnosed", "diagnosis", "treatment", "facility", "clinic",
     "region", "cost", "price", "amount", "bill", "visit", "who was treated",
     "what is the name of patient with"}

\* custom_tasks._looks_structured
looks_structured(text) ==
    LET ql == Lower(text)
    IN  \E k \in CSV_KEYWORDS : Contains(ql, k)

\* custom_tasks._looks_like_indicator
looks_like_indicator(text) ==
    LET s == Strip(text)
    IN  Len(s) >= 4 /\ \A n \in 1..Len(s) : IsCodeChar(Ch(s, n))

BloodPressureAnswer == "Normal blood pressure is around 120 over 80."

ViralLoadAnswer == "Viral load monitoring helps track HIV treatment success."

DataReportAnswer == "Fetching your facility's data report..."

FinalFallback ==
    ThinkMark \o " I'm not sure how to help with that. Try asking about a patient, "
              \o "a diagnosis, a facility, a region, or an indicator like ANC1_HTS."

\* the quick answers with the tests of lines 44-49 in the opposite order
QuickAnswerReportFirst(ql) ==
    IF Contains(ql, "data report") THEN DataReportAnswer
    ELSE IF Contains(ql, "viral load") THEN ViralLoadAnswer
    ELSE IF Contains(ql, "blood pressure") THEN BloodPressureAnswer
    ELSE ""

\* lines 44-49: the built-in quick answer for ql, "" when none applies
QuickAnswer(ql) ==
    IF Contains(ql, "blood pressure") THEN BloodPressureAnswer
    ELSE IF Contains(ql, "viral load") THEN ViralLoadAnswer
    ELSE IF Contains(ql, "data report") THEN DataReportAnswer
    ELSE ""

\* the test of line 56 without its truthiness conjunct: an empty response passes
IndicatorAcceptsEmpty(resp) == ~Contains(resp, "No definition") /\ ~Contains(resp, "not found")

\* line 56: the test of a response in the indicator stage
IndicatorAccepts(resp) ==
    resp # "" /\ ~Contains(resp, "No definition") /\ ~Contains(resp, "not found")

\* the test of line 67 without its "No matching data" conjunct
StructuredAcceptsNoMatch(resp) == Strip(resp) # "" /\ ~Contains(resp, CsvErrorMark)

\* line 67: the test of a response in the structured stage
StructuredAccepts(resp) ==
    Strip(resp) # "" /\ ~Contains(resp, "No matching data") /\ ~Contains(resp, CsvErrorMark)

\* line 80: the test of a response in the fallback stage
FallbackAccepts(resp) == Strip(resp) # "" /\ ~Contains(resp, "I could not find")

(***************************************************************************)
(* The state: the three folders, the lists custom_tasks.py takes of them   *)
(* when it is imported, and the one invocation of handle_task in progress. *)
(***************************************************************************)
VARIABLES
    pdfStore,      \* health_pdfs: file name -> file
    csvStore,      \* health_csvs: file name -> file
    vectorstores,  \* vectorstores: directory name -> persisted index
    pdf_files,     \* custom_tasks.pdf_files
    csv_files,     \* custom_tasks.csv_files
    pc,            \* where handle_task is: idle, case1, case2, case3, done
    user_input,    \* the argument of the invocation
    q,             \* handle_task's q
    cursor,             \* position of the running for loop in its list
    result,        \* the value handle_task returns
    trace,         \* the matcher calls the invocation has made, in order
    snap,          \* the folders as they were when the invocation began
    builds,        \* per document, the index builds completed (embedding and save)
    memo,          \* an earlier invocation kept for comparison
    workers,       \* the threads inside build_or_load_vectorstore
    chat_history,  \* st.session_state.chat_history
    chat_logs,     \* the files save_chat_log has written, in order
    ui,            \* where the run of streamlit_app.py is, and the input it handles
    call           \* the last direct call of a matcher or helper, with what it gave

vars == <<pdfStore, csvStore, vectorstores, pdf_files, csv_files, pc, user_input, q,
          cursor, result, trace, snap, builds, memo, workers, chat_history, chat_logs, ui,
          call>>

\* the state of the chat page and of the direct calls
shell == <<chat_history, chat_logs, ui, call>>

\* the names os.listdir can return, in the order the directory yields them
PdfDir == <<"a.pdf", "a.PDF", "b.pdf">>

CsvDir == <<"c1.csv", "c2.csv">>

PdfNames == {PdfDir[n] : n \in 1..Len(PdfDir)}

CsvNames == {CsvDir[n] : n \in 1..Len(CsvDir)}

\* what a file of each name can hold when it is there
PdfVersions(name) ==
    IF name = "a.pdf" THEN {GuidePdf, DeniedPdf}
    ELSE IF name = "a.PDF" THEN {InvoicePdf}
    ELSE {InvoicePdf, CorruptPdf, DeniedPdf}

CsvVersions(name) == {PatientsCsv, VisitsCsv}

AllPdfFiles == UNION {PdfVersions(n) : n \in PdfNames} \cup {MissingPdf}

AllCsvFiles == UNION {CsvVersions(n) : n \in CsvNames} \cup {MissingCsv}

\* every index a build can persist
AllIndexes ==
    {NoIndex} \cup
    UNION {{build_or_load_vectorstore(n, f, NoIndex).saved : f \in PdfVersions(n)} : n \in PdfNames}

IndexDirs == {vectorstore_file(n) : n \in PdfNames}

\* what the user says or types
Queries ==
    {"What is Blood Pressure of patient P003?",
     "data report on viral load",
     "ANC1_HTS",
     "PATIENT_ID",
     "What is the treatment for patient P003?",
     "treatment for patient 7",
     " tell me about malaria ",
     "What is the total?",
     "TOTAL",
     ""}

(***************************************************************************)
(* Tabulations.  TLC evaluates a constant definition once, so the pure     *)
(* functions of the code are tabulated over the model's finite inputs and  *)
(* each step looks its value up instead of recomputing it.                 *)
(***************************************************************************)
StripOf == [u \in Queries |-> Strip(u)]

QValues == {StripOf[u] : u \in Queries}

QuickAnswerOf == [u \in QValues |-> QuickAnswer(Lower(u))]

IsIndicator == [u \in QValues |-> looks_like_indicator(u)]

IsStructured == [u \in QValues |-> looks_structured(u)]

QueryPdfOf ==
    [n \in PdfNames |-> [u \in QValues |-> [f \in AllPdfFiles |-> [x \in AllIndexes |->
        query_pdf(n, u, f, x)]]]]

QueryCsvOf ==
    [n \in CsvNames |-> [u \in QValues |-> [f \in AllCsvFiles |-> query_csv(n, u, f)]]]

PdfResponses ==
    {QueryPdfOf[n][u][f][x].resp : n \in PdfNames, u \in QValues, f \in AllPdfFiles, x \in AllIndexes}

CsvResponses == {QueryCsvOf[n][u][f].resp : n \in CsvNames, u \in QValues, f \in AllCsvFiles}

IndicatorAcceptsOf == [r \in PdfResponses |-> IndicatorAccepts(r)]

StructuredAcceptsOf == [r \in CsvResponses |-> StructuredAccepts(r)]

FallbackAcceptsOf == [r \in PdfResponses |-> FallbackAccepts(r)]

\* lines 7-8: f.lower().endswith(".pdf") and f.lower().endswith(".csv")
HasPdfExt == [n \in PdfNames |-> Lower(Tail0(n, Len(n) - 3)) = ".pdf"]

HasCsvExt == [n \in CsvNames |-> Lower(Tail0(n, Len(n) - 3)) = ".csv"]

\* lines 7-8: the names with the extension, as listed at import
ListPdf(store) == SelectSeq(PdfDir, LAMBDA n : store[n].kind # "missing" /\ HasPdfExt[n])

ListCsv(store) == SelectSeq(CsvDir, LAMBDA n : store[n].kind # "missing" /\ HasCsvExt[n])

NumWorkers == 2

Workers == 1..NumWorkers

\* a thread that is not inside build_or_load_vectorstore
IdleWorker == [pc |-> "idle", doc |-> "", absent |-> FALSE, index |-> NoIndex, ev |-> "none"]

NoSnap == [pdfStore |-> << >>, csvStore |-> << >>, vectorstores |-> << >>]

NoMemo == [used |-> FALSE, input |-> "", snap |-> NoSnap, pdf_files |-> << >>,
           csv_files |-> << >>, result |-> ""]

\* streamlit_app.py waiting for a button
IdleUi == [at |-> "idle", input |-> ""]

\* no direct call made yet
NoCall == [fn |-> "none", table |-> MissingCsv, query |-> "", values |-> << >>,
           out |-> Returned("")]

\* the folders hold any of the files; no index has been built; custom_tasks.py is imported
Init ==
    /\ pdfStore \in {f \in [PdfNames -> AllPdfFiles] :
                        \A n \in PdfNames : f[n] \in PdfVersions(n) \cup {MissingPdf}}
    /\ csvStore \in {f \in [CsvNames -> AllCsvFiles] :
                        \A n \in CsvNames : f[n] \in CsvVersions(n) \cup {MissingCsv}}
    /\ vectorstores = [d \in IndexDirs |-> NoIndex]
    /\ pdf_files = ListPdf(pdfStore)
    /\ csv_files = ListCsv(csvStore)
    /\ pc = "idle"
    /\ user_input = ""
    /\ q = ""
    /\ cursor = 1
    /\ result = ""
    /\ trace = << >>
    /\ snap = NoSnap
    /\ builds = [n \in PdfNames |-> 0]
    /\ memo = NoMemo
    /\ workers = [w \in Workers |-> IdleWorker]
    /\ chat_history = << >>
    /\ chat_logs = << >>
    /\ ui = IdleUi
    /\ call = NoCall

\* lines 40-49: entry, and the built-in quick answers
handle_task_enter(u) ==
    /\ pc = "idle"
    /\ user_input' = u
    /\ q' = StripOf[u]
    /\ cursor' = 1
    /\ trace' = << >>
    /\ snap' = [pdfStore |-> pdfStore, csvStore |-> csvStore, vectorstores |-> vectorstores]
    /\ IF QuickAnswerOf[StripOf[u]] # ""
       THEN pc' = "done" /\ result' = QuickAnswerOf[StripOf[u]]
       ELSE pc' = "case1" /\ result' = ""
    /\ UNCHANGED <<pdfStore, csvStore, vectorstores, pdf_files, csv_files, builds, memo,
                   workers>>
    /\ UNCHANGED shell

\* one entry of trace: a query_pdf call, with what it did to the index (ev) and,
\* when it loaded or built one, the document the index was built from
PdfCall(stage, pdf_name, o) ==
    [stage |-> stage, src |-> pdf_name, raised |-> o.raised, resp |-> o.resp,
     ev |-> o.ev, from |-> o.index.src]

\* one entry of trace: a query_csv call
CsvCall(stage, csv_name, o) ==
    [stage |-> stage, src |-> csv_name, raised |-> o.raised, resp |-> o.resp,
     ev |-> "none", from |-> ""]

\* the effect of one query_pdf call on the index folder and the build count
PdfCallEffects(pdf_name, o) ==
    /\ vectorstores' = [vectorstores EXCEPT ![vectorstore_file(pdf_name)] = o.saved]
    /\ builds' = IF o.ev = "built" THEN [builds EXCEPT ![pdf_name] = @ + 1] ELSE builds

\* lines 52-59: one iteration of the indicator loop
case1_call ==
    /\ pc = "case1"
    /\ IsIndicator[q]
    /\ cursor <= Len(pdf_files)
    /\ \E pdf_name \in {pdf_files[cursor]} :
       \E o \in {QueryPdfOf[pdf_name][q][pdfStore[pdf_name]][vectorstores[vectorstore_file(pdf_name)]]} :
           /\ trace' = Append(trace, PdfCall("case1", pdf_name, o))
           /\ PdfCallEffects(pdf_name, o)
           /\ IF ~o.raised /\ IndicatorAcceptsOf[o.resp]
              THEN pc' = "done" /\ result' = o.resp /\ cursor' = cursor
              ELSE pc' = pc /\ result' = result /\ cursor' = cursor + 1
    /\ UNCHANGED <<pdfStore, csvStore, pdf_files, csv_files, user_input, q, snap, memo,
                   workers>>
    /\ UNCHANGED shell

\* line 52 false, or the loop of line 53 exhausted
case1_end ==
    /\ pc = "case1"
    /\ ~IsIndicator[q] \/ cursor > Len(pdf_files)
    /\ pc' = "case2"
    /\ cursor' = 1
    /\ UNCHANGED <<pdfStore, csvStore, vectorstores, pdf_files, csv_files, user_input, q,
                   result, trace, snap, builds, memo, workers>>
    /\ UNCHANGED shell

\* the structured loop without the test of line 62: every query is tried on the tables
case2_call_any ==
    /\ pc = "case2"
    /\ cursor <= Len(csv_files)
    /\ \E csv_name \in {csv_files[cursor]} :
       \E o \in {QueryCsvOf[csv_name][q][csvStore[csv_name]]} :
           /\ trace' = Append(trace, CsvCall("case2", csv_name, o))
           /\ IF ~o.raised /\ StructuredAcceptsOf[o.resp]
              THEN pc' = "done" /\ result' = o.resp /\ cursor' = cursor
              ELSE pc' = pc /\ result' = result /\ cursor' = cursor + 1
    /\ UNCHANGED <<pdfStore, csvStore, vectorstores, pdf_files, csv_files, user_input, q,
                   snap, builds, memo, workers>>
    /\ UNCHANGED shell

\* lines 62-72: one iteration of the structured loop (csv_any_match is never read)
case2_call ==
    /\ pc = "case2"
    /\ IsStructured[q]
    /\ cursor <= Len(csv_files)
    /\ \E csv_name \in {csv_files[cursor]} :
       \E o \in {QueryCsvOf[csv_name][q][csvStore[csv_name]]} :
           /\ trace' = Append(trace, CsvCall("case2", csv_name, o))
           /\ IF ~o.raised /\ StructuredAcceptsOf[o.resp]
              THEN pc' = "done" /\ result' = o.resp /\ cursor' = cursor
              ELSE pc' = pc /\ result' = result /\ cursor' = cursor + 1
    /\ UNCHANGED <<pdfStore, csvStore, vectorstores, pdf_files, csv_files, user_input, q,
                   snap, builds, memo, workers>>
    /\ UNCHANGED shell

\* the structured stage ending the invocation when no table qualified (no stage after it)
case2_end_giveup ==
    /\ pc = "case2"
    /\ ~IsStructured[q] \/ cursor > Len(csv_files)
    /\ IF IsStructured[q]
       THEN pc' = "done" /\ result' = FinalFallback /\ cursor' = cursor
       ELSE pc' = "case3" /\ result' = result /\ cursor' = 1
    /\ UNCHANGED <<pdfStore, csvStore, vectorstores, pdf_files, csv_files, user_input, q,
                   trace, snap, builds, memo, workers>>
    /\ UNCHANGED shell

\* line 62 false, or the loop of line 64 exhausted
case2_end ==
    /\ pc = "case2"
    /\ ~IsStructured[q] \/ cursor > Len(csv_files)
    /\ pc' = "case3"
    /\ cursor' = 1
    /\ UNCHANGED <<pdfStore, csvStore, vectorstores, pdf_files, csv_files, user_input, q,
                   result, trace, snap, builds, memo, workers>>
    /\ UNCHANGED shell

\* the fallback loop without the try/except of lines 78-83: a raise ends the invocation
case3_call_raising ==
    /\ pc = "case3"
    /\ cursor <= Len(pdf_files)
    /\ \E pdf_name \in {pdf_files[cursor]} :
       \E o \in {QueryPdfOf[pdf_name][q][pdfStore[pdf_name]][vectorstores[vectorstore_file(pdf_name)]]} :
           /\ trace' = Append(trace, PdfCall("case3", pdf_name, o))
           /\ PdfCallEffects(pdf_name, o)
           /\ IF o.raised
              THEN pc' = "done" /\ result' = "Traceback" /\ cursor' = cursor
              ELSE IF FallbackAcceptsOf[o.resp]
              THEN pc' = "done" /\ result' = o.resp /\ cursor' = cursor
              ELSE pc' = pc /\ result' = result /\ cursor' = cursor + 1
    /\ UNCHANGED <<pdfStore, csvStore, pdf_files, csv_files, user_input, q, snap, memo,
                   workers>>
    /\ UNCHANGED shell

\* lines 77-83: one iteration of the fallback loop
case3_call ==
    /\ pc = "case3"
    /\ cursor <= Len(pdf_files)
    /\ \E pdf_name \in {pdf_files[cursor]} :
       \E o \in {QueryPdfOf[pdf_name][q][pdfStore[pdf_name]][vectorstores[vectorstore_file(pdf_name)]]} :
           /\ trace' = Append(trace, PdfCall("case3", pdf_name, o))
           /\ PdfCallEffects(pdf_name, o)
           /\ IF ~o.raised /\ FallbackAcceptsOf[o.resp]
              THEN pc' = "done" /\ result' = o.resp /\ cursor' = cursor
              ELSE pc' = pc /\ result' = result /\ cursor' = cursor + 1
    /\ UNCHANGED <<pdfStore, csvStore, pdf_files, csv_files, user_input, q, snap, memo,
                   workers>>
    /\ UNCHANGED shell

\* the end of the fallback stage with nothing to say
case3_end_empty ==
    /\ pc = "case3"
    /\ cursor > Len(pdf_files)
    /\ pc' = "done"
    /\ result' = ""
    /\ UNCHANGED <<pdfStore, csvStore, vectorstores, pdf_files, csv_files, user_input, q,
                   cursor, trace, snap, builds, memo, workers>>
    /\ UNCHANGED shell

\* line 86: the final fallback
case3_end ==
    /\ pc = "case3"
    /\ cursor > Len(pdf_files)
    /\ pc' = "done"
    /\ result' = FinalFallback
    /\ UNCHANGED <<pdfStore, csvStore, vectorstores, pdf_files, csv_files, user_input, q,
                   cursor, trace, snap, builds, memo, workers>>
    /\ UNCHANGED shell

\* the caller takes the answer; the next invocation starts afresh
handle_task_return ==
    /\ pc = "done"
    /\ pc' = "idle"
    /\ user_input' = ""
    /\ q' = ""
    /\ cursor' = 1
    /\ result' = ""
    /\ trace' = << >>
    /\ snap' = NoSnap
    /\ UNCHANGED <<pdfStore, csvStore, vectorstores, pdf_files, csv_files, builds, memo,
                   workers>>
    /\ UNCHANGED shell

(***************************************************************************)
(* The folders change between invocations: an operator adds, replaces or   *)
(* removes files; restarting the process imports custom_tasks.py again.    *)
(***************************************************************************)
\* a file removed while an invocation is running
RemovePdfDuringCall(n) ==
    /\ pdfStore[n] # MissingPdf
    /\ pdfStore' = [pdfStore EXCEPT ![n] = MissingPdf]
    /\ UNCHANGED <<csvStore, vectorstores, pdf_files, csv_files, pc, user_input, q, cursor,
                   result, trace, snap, builds, memo, workers>>
    /\ UNCHANGED shell

RemovePdf(n) ==
    /\ pc = "idle"
    /\ pdfStore[n] # MissingPdf
    /\ pdfStore' = [pdfStore EXCEPT ![n] = MissingPdf]
    /\ UNCHANGED <<csvStore, vectorstores, pdf_files, csv_files, pc, user_input, q, cursor,
                   result, trace, snap, builds, memo, workers>>
    /\ UNCHANGED shell

PutPdf(n, f) ==
    /\ pc = "idle"
    /\ pdfStore[n] # f
    /\ pdfStore' = [pdfStore EXCEPT ![n] = f]
    /\ UNCHANGED <<csvStore, vectorstores, pdf_files, csv_files, pc, user_input, q, cursor,
                   result, trace, snap, builds, memo, workers>>
    /\ UNCHANGED shell

RemoveCsv(n) ==
    /\ pc = "idle"
    /\ csvStore[n] # MissingCsv
    /\ csvStore' = [csvStore EXCEPT ![n] = MissingCsv]
    /\ UNCHANGED <<pdfStore, vectorstores, pdf_files, csv_files, pc, user_input, q, cursor,
                   result, trace, snap, builds, memo, workers>>
    /\ UNCHANGED shell

PutCsv(n, f) ==
    /\ pc = "idle"
    /\ csvStore[n] # f
    /\ csvStore' = [csvStore EXCEPT ![n] = f]
    /\ UNCHANGED <<pdfStore, vectorstores, pdf_files, csv_files, pc, user_input, q, cursor,
                   result, trace, snap, builds, memo, workers>>
    /\ UNCHANGED shell

\* custom_tasks.py lines 7-8 run again in a new process
Restart ==
    /\ pc = "idle"
    /\ pdf_files' = ListPdf(pdfStore)
    /\ csv_files' = ListCsv(csvStore)
    /\ <<pdf_files', csv_files'>> # <<pdf_files, csv_files>>
    /\ UNCHANGED <<pdfStore, csvStore, vectorstores, pc, user_input, q, cursor, result,
                   trace, snap, builds, memo, workers>>
    /\ UNCHANGED shell

Next ==
    \/ \E u \in Queries : handle_task_enter(u)
    \/ case1_call
    \/ case1_end
    \/ case2_call
    \/ case2_end
    \/ case3_call
    \/ case3_end
    \/ handle_task_return
    \/ \E n \in PdfNames : RemovePdf(n)
    \/ \E n \in PdfNames : \E f \in PdfVersions(n) : PutPdf(n, f)
    \/ \E n \in CsvNames : RemoveCsv(n)
    \/ \E n \in CsvNames : \E f \in CsvVersions(n) : PutCsv(n, f)
    \/ Restart

Spec == Init /\ [][Next]_vars

(***************************************************************************)
(* Two invocations side by side.  A finished invocation is kept in memo    *)
(* (its input, the folders and lists it ran on, its answer) so that a      *)
(* later invocation can be compared with it.  The world is one document    *)
(* name and one table name, which is all the comparison needs.             *)
(***************************************************************************)
Remember ==
    /\ pc = "done"
    /\ memo' = [used |-> TRUE, input |-> user_input, snap |-> snap, pdf_files |-> pdf_files,
                csv_files |-> csv_files, result |-> result]
    /\ memo' # memo
    /\ UNCHANGED <<pdfStore, csvStore, vectorstores, pdf_files, csv_files, pc, user_input, q,
                   cursor, result, trace, snap, builds, workers>>
    /\ UNCHANGED shell

PureQueries ==
    {"ANC1_HTS", " tell me about malaria ", "What is the treatment for patient P003?"}

InitPure ==
    /\ Init
    /\ pdfStore["a.pdf"] = MissingPdf
    /\ pdfStore["a.PDF"] = MissingPdf
    /\ csvStore["c1.csv"] # VisitsCsv
    /\ csvStore["c2.csv"] = MissingCsv

NextPure ==
    \/ \E u \in PureQueries : handle_task_enter(u)
    \/ case1_call
    \/ case1_end
    \/ case2_call
    \/ case2_end
    \/ case3_call
    \/ case3_end
    \/ handle_task_return
    \/ Remember
    \/ RemovePdf("b.pdf")
    \/ \E f \in PdfVersions("b.pdf") : PutPdf("b.pdf", f)
    \/ Restart

SpecPure == InitPure /\ [][NextPure]_vars

(***************************************************************************)
(* build_or_load_vectorstore run by several threads at once (Streamlit     *)
(* runs each session's script in a thread of its own).  The function's     *)
(* steps are its file-system operations: the exists() test of line 81, the *)
(* load and embedding of lines 88-91, the save of line 92.                 *)
(***************************************************************************)
\* query_pdf reaches line 125 for a document that exists (line 105)
bl_call(w, n) ==
    /\ workers[w].pc = "idle"
    /\ pdfStore[n].kind \in {"pdf", "corrupt"}
    /\ workers' = [workers EXCEPT ![w] = [IdleWorker EXCEPT !.pc = "check", !.doc = n]]
    /\ UNCHANGED <<pdfStore, csvStore, vectorstores, pdf_files, csv_files, pc, user_input, q,
                   cursor, result, trace, snap, builds, memo>>
    /\ UNCHANGED shell

\* lines 81-86: the index is there and is loaded, or it is not
bl_check(w) ==
    /\ workers[w].pc = "check"
    /\ LET persisted == vectorstores[vectorstore_file(workers[w].doc)]
       IN  workers' = [workers EXCEPT ![w] =
               IF persisted.kind = "index"
               THEN [@ EXCEPT !.pc = "done", !.index = persisted, !.ev = "loaded"]
               ELSE [@ EXCEPT !.pc = "build", !.absent = TRUE]]
    /\ UNCHANGED <<pdfStore, csvStore, vectorstores, pdf_files, csv_files, pc, user_input, q,
                   cursor, result, trace, snap, builds, memo>>
    /\ UNCHANGED shell

\* a build step that tests exists() again and loads what another thread has saved
bl_build_recheck(w) ==
    /\ workers[w].pc = "build"
    /\ LET persisted == vectorstores[vectorstore_file(workers[w].doc)]
           b == build_or_load_vectorstore(workers[w].doc, pdfStore[workers[w].doc], persisted)
       IN  workers' = [workers EXCEPT ![w] =
               IF b.ev = "built"
               THEN [@ EXCEPT !.pc = "save", !.index = b.index]
               ELSE [@ EXCEPT !.pc = "done", !.index = b.index, !.ev = b.ev]]
    /\ UNCHANGED <<pdfStore, csvStore, vectorstores, pdf_files, csv_files, pc, user_input, q,
                   cursor, result, trace, snap, builds, memo>>
    /\ UNCHANGED shell

\* lines 88-91: the pages are loaded and embedded; a file that cannot be read raises
bl_build(w) ==
    /\ workers[w].pc = "build"
    /\ LET b == build_or_load_vectorstore(workers[w].doc, pdfStore[workers[w].doc], NoIndex)
       IN  workers' = [workers EXCEPT ![w] =
               IF b.ev = "built"
               THEN [@ EXCEPT !.pc = "save", !.index = b.index]
               ELSE [@ EXCEPT !.pc = "done", !.ev = "failed"]]
    /\ UNCHANGED <<pdfStore, csvStore, vectorstores, pdf_files, csv_files, pc, user_input, q,
                   cursor, result, trace, snap, builds, memo>>
    /\ UNCHANGED shell

\* line 92: save_local writes the index directory
bl_save(w) ==
    /\ workers[w].pc = "save"
    /\ vectorstores' =
           [vectorstores EXCEPT ![vectorstore_file(workers[w].doc)] = workers[w].index]
    /\ builds' = [builds EXCEPT ![workers[w].doc] = @ + 1]
    /\ workers' = [workers EXCEPT ![w] = [@ EXCEPT !.pc = "done", !.ev = "built"]]
    /\ UNCHANGED <<pdfStore, csvStore, pdf_files, csv_files, pc, user_input, q, cursor,
                   result, trace, snap, memo>>
    /\ UNCHANGED shell

\* lines 82 and 93: the index goes back to query_pdf
bl_return(w) ==
    /\ workers[w].pc = "done"
    /\ workers' = [workers EXCEPT ![w] = IdleWorker]
    /\ UNCHANGED <<pdfStore, csvStore, vectorstores, pdf_files, csv_files, pc, user_input, q,
                   cursor, result, trace, snap, builds, memo>>
    /\ UNCHANGED shell

InitConc ==
    /\ Init
    /\ csvStore = [n \in CsvNames |-> MissingCsv]

NextConc ==
    \/ \E w \in Workers : \E n \in PdfNames : bl_call(w, n)
    \/ \E w \in Workers : bl_check(w)
    \/ \E w \in Workers : bl_build(w)
    \/ \E w \in Workers : bl_save(w)
    \/ \E w \in Workers : bl_return(w)

SpecConc == InitConc /\ [][NextConc]_vars

(***************************************************************************)
(* The Tabular Matcher and _clean_answer called directly, as csv_utils.py  *)
(* lets any caller do: query_csv on a file of health_csvs and a query,     *)
(* _clean_answer on a list of values.                                      *)
(***************************************************************************)
\* a table without the Treatment column, with a repeated name and a blank one
ClinicCsv ==
    [kind |-> "table",
     cols |-> {"PatientID", "Name", "Diagnosis", "Facility", "Region", "Cost"},
     rows |-> << [PatientID |-> "P003", Name |-> "Asha", Diagnosis |-> "Anemia",
                  Facility |-> "Clinic D", Region |-> "North", Cost |-> "10.50"],
                 [PatientID |-> "P005", Name |-> "  ", Diagnosis |-> "Anemia",
                  Facility |-> "Clinic D", Region |-> "North", Cost |-> "2"],
                 [PatientID |-> "P006", Name |-> "Asha", Diagnosis |-> "Anemia",
                  Facility |-> "Clinic D", Region |-> "East", Cost |-> "1.25"],
                 [PatientID |-> "P007", Name |-> "Bimal", Diagnosis |-> "Malaria",
                  Facility |-> "Clinic E", Region |-> "North", Cost |-> "4"] >>]

\* a table of costs per region only
RegionsCsv ==
    [kind |-> "table",
     cols |-> {"Region", "Cost"},
     rows |-> << [Region |-> "North", Cost |-> "10.50"],
                 [Region |-> "Northwest", Cost |-> "1.5"],
                 [Region |-> "South", Cost |-> "7"] >>]

\* a table with identifiers and diagnoses, without names
IdsCsv ==
    [kind |-> "table",
     cols |-> {"PatientID", "Diagnosis"},
     rows |-> << [PatientID |-> "P003", Diagnosis |-> "Anemia"],
                 [PatientID |-> "P004", Diagnosis |-> "Anemia"],
                 [PatientID |-> "P003", Diagnosis |-> "Malaria"] >>]

\* a table with none of the columns a list answer is taken from
DiagnosesCsv ==
    [kind |-> "table",
     cols |-> {"Diagnosis", "Facility"},
     rows |-> << [Diagnosis |-> "Anemia", Facility |-> "Clinic D"] >>]

MatchTables == {PatientsCsv, VisitsCsv, ClinicCsv, RegionsCsv, IdsCsv, DiagnosesCsv}

MatchQueries ==
    {"What is the treatment for patient P003?",
     "treatment of patient p004",
     "treatment for patient P999",
     "treatment for patient 7",
     "Who was treated at Clinic D for Anemia?",
     "who was treated at clinic z for anemia",
     "who was treated at clinic d for patients with anemia",
     "What is the total cost of treatments in the North region?",
     "total cost for west region",
     "total cost of treatment for patient P003 in the north region",
     "total cost of treatment for patient P003 in the west region",
     "List all patients diagnosed with Anemia",
     "patients with malaria?",
     "What is the bill for patient P003?",
     "cost for patient P999",
     "asha anemia",
     "asha malaria",
     "clinic anemia",
     "anemia",
     "who is it",
     ""}

QueryCsvDirect == [f \in MatchTables |-> [u \in MatchQueries |-> query_csv("c1.csv", u, f)]]

\* the cells a list answer can be built from
CleanValues == {"Asha", "Bimal", "asha", "", "  "}

MaxValues == 3

ValueLists == UNION {[1..n -> CleanValues] : n \in 0..MaxValues}

CleanAnswerOf == [vs \in ValueLists |-> clean_answer(vs)]

\* csv_utils.query_csv called on a table and a query
call_query_csv(f, u) ==
    /\ call' = [fn |-> "query_csv", table |-> f, query |-> u, values |-> << >>,
                out |-> QueryCsvDirect[f][u]]
    /\ UNCHANGED <<pdfStore, csvStore, vectorstores, pdf_files, csv_files, pc, user_input, q,
                   cursor, result, trace, snap, builds, memo, workers>>
    /\ UNCHANGED <<chat_history, chat_logs, ui>>

\* csv_utils._clean_answer called on a list of values
call_clean_answer(vs) ==
    /\ call' = [fn |-> "clean_answer", table |-> MissingCsv, query |-> "", values |-> vs,
                out |-> Returned(CleanAnswerOf[vs])]
    /\ UNCHANGED <<pdfStore, csvStore, vectorstores, pdf_files, csv_files, pc, user_input, q,
                   cursor, result, trace, snap, builds, memo, workers>>
    /\ UNCHANGED <<chat_history, chat_logs, ui>>

InitMatch ==
    /\ Init
    /\ pdfStore = [n \in PdfNames |-> MissingPdf]
    /\ csvStore = [n \in CsvNames |-> MissingCsv]

NextMatch ==
    \/ \E f \in MatchTables : \E u \in MatchQueries : call_query_csv(f, u)
    \/ \E vs \in ValueLists : call_clean_answer(vs)

SpecMatch == InitMatch /\ [][NextMatch]_vars

(***************************************************************************)
(* Properties                                                              *)
(***************************************************************************)
\* the matcher calls one stage of the running invocation has made
StageCalls(stage) == SelectSeq(trace, LAMBDA e : e.stage = stage)

LastCall == trace[Len(trace)]

CannedPhrases == <<"blood pressure", "viral load", "data report">>

CannedStrings == <<BloodPressureAnswer, ViralLoadAnswer, DataReportAnswer>>

\* per input, the first phrase of CannedPhrases its lowercased text contains, 0 when none
FirstCanned ==
    [u \in Queries |->
        LET hits == {k \in 1..Len(CannedPhrases) : Contains(Lower(u), CannedPhrases[k])}
        IN  IF hits = {} THEN 0 ELSE CHOOSE k \in hits : \A h \in hits : k <= h]

\* C1: an input whose lowercased text contains a canned phrase is answered with the
\* fixed string of the first such phrase (in the order blood pressure, viral load, data
\* report), whatever tables and documents there are, and no matcher is called for it.
CannedAnswerBypassesSources ==
    (pc # "idle" /\ FirstCanned[user_input] # 0) =>
        /\ pc = "done"
        /\ result = CannedStrings[FirstCanned[user_input]]
        /\ trace = << >>

\* C1 happens: two phrases in the input, in the other order, with tables and documents listed
CannedAnswerGiven ==
    /\ pc = "done"
    /\ user_input = "data report on viral load"
    /\ result = ViralLoadAnswer
    /\ Len(pdf_files) >= 2
    /\ Len(csv_files) >= 2

\* C2: in every stage, a matcher call that raises ends neither the stage nor the
\* invocation: nothing is returned, and the loop goes on to the next source of the stage.
ExceptionsSwallowed ==
    [][(Len(trace') = Len(trace) + 1 /\ trace'[Len(trace')].raised) =>
           (pc' = pc /\ cursor' = cursor + 1 /\ result' = result)]_vars

\* C2 happens: in the fallback stage and in the structured stage a call raised and the
\* next source of the stage was queried after it
RaiseThenNextSource ==
    /\ \E k \in 1..(Len(trace) - 1) :
          trace[k].raised /\ trace[k].stage = "case2" /\ trace[k + 1].stage = "case2"
    /\ \E k \in 1..(Len(trace) - 1) :
          trace[k].raised /\ trace[k].stage = "case3" /\ trace[k + 1].stage = "case3"

IsErrorMarked == [r \in PdfResponses |-> StartsAt(r, 1, PdfErrorMark)]

\* C3: an error-marked response of query_pdf (file not found, semantic search failed) is
\* never handed back as the answer, in the fallback stage as in the indicator stage.
ErrorMarkedIsNoMatch ==
    (pc = "done" /\ trace # << >> /\ LastCall.stage \in {"case1", "case3"}
        /\ ~LastCall.raised /\ IsErrorMarked[LastCall.resp])
    => result # LastCall.resp

\* C4: a structured query ends with the final fallback only after query_pdf was called
\* on every listed document, in order, and none of the calls gave an acceptable response.
FallbackOnlyAfterAllDocuments ==
    (pc = "done" /\ IsStructured[q] /\ result = FinalFallback) =>
        LET docs == StageCalls("case3")
        IN  /\ Len(docs) = Len(pdf_files)
            /\ \A k \in 1..Len(docs) :
                  /\ docs[k].src = pdf_files[k]
                  /\ docs[k].raised \/ Strip(docs[k].resp) = ""
                        \/ Contains(docs[k].resp, "I could not find")

\* C4 happens: tables were tried, then two documents, then the final fallback
StructuredFellBackThroughDocuments ==
    /\ pc = "done"
    /\ IsStructured[q]
    /\ result = FinalFallback
    /\ Len(StageCalls("case2")) >= 1
    /\ Len(StageCalls("case3")) >= 2

\* a response of query_csv that is non-empty, holds no "No matching data" and is not
\* error-marked
Qualifies ==
    [r \in CsvResponses |->
        r # "" /\ ~Contains(r, "No matching data") /\ ~StartsAt(r, 1, CsvErrorMark)]

\* C5: the structured stage queries the tables in listing order; the first call whose
\* response qualifies ends the invocation with that response (no table and no document
\* is queried after it), every call before it raised or did not qualify, and a table's
\* response is returned only when it qualifies.
FirstQualifyingTableWins ==
    LET tabs == StageCalls("case2")
    IN  /\ \A k \in 1..Len(tabs) : tabs[k].src = csv_files[k]
        /\ (pc = "done" /\ trace # << >> /\ LastCall.stage = "case2"
                /\ result = LastCall.resp)
            => (~LastCall.raised /\ Qualifies[LastCall.resp])
        /\ \A k \in 1..Len(tabs) :
              (~tabs[k].raised /\ Qualifies[tabs[k].resp]) =>
                  /\ k = Len(tabs)
                  /\ LastCall = tabs[k]
                  /\ pc = "done"
                  /\ result = tabs[k].resp

\* C5 happens: the first of two tables raised, the second answered
SecondTableAnswered ==
    /\ pc = "done"
    /\ Len(StageCalls("case2")) = 2
    /\ trace[1].raised
    /\ result = "Insulin"

\* C6 as stated: query_csv is never called for a query that is an indicator code
CodeLookupNeverQueriesTables ==
    (pc # "idle" /\ IsIndicator[q]) => StageCalls("case2") = << >>

\* whether the lowercased text of a query holds one of the structured keywords
HoldsStructuredKeyword ==
    [u \in QValues |-> \E w \in CSV_KEYWORDS : Contains(Lower(u), w)]

\* C6: query_csv is called for an indicator code only when its lowercased text holds a
\* structured keyword; any other indicator code goes from the indicator stage straight
\* to the fallback stage.
CodeLookupQueriesTablesOnlyOnKeyword ==
    (pc # "idle" /\ IsIndicator[q] /\ ~HoldsStructuredKeyword[q]) =>
        StageCalls("case2") = << >>

\* C6 happens: a code without keyword, no document accepted it, tables are listed, and
\* the fallback stage ran
CodeFellThroughToFallback ==
    /\ pc = "done"
    /\ q = "ANC1_HTS"
    /\ Len(csv_files) >= 1
    /\ Len(StageCalls("case1")) >= 1
    /\ Len(StageCalls("case3")) >= 1

IndexBuiltAtMostOnce == \A n \in PdfNames : builds[n] <= 1

\* C8 happens: a document whose index was built earlier has it loaded by a later call
BuiltOnceThenLoaded ==
    /\ trace # << >>
    /\ LastCall.ev = "loaded"
    /\ LastCall.from = LastCall.src
    /\ builds[LastCall.src] = 1

\* C9: a query of one document never loads the index built from another document
LoadedIndexIsOwn ==
    \A k \in 1..Len(trace) : trace[k].ev = "loaded" => trace[k].from = trace[k].src

\* C10: build_or_load_vectorstore calls are not coordinated: a call that found no index
\* builds and saves whatever the other calls do in the meantime (it never takes what
\* another call has saved since), so one document's index can be built more than once.
FirstBuildsUncoordinated ==
    \A w \in Workers :
        /\ workers[w].ev = "loaded" => ~workers[w].absent
        /\ (workers[w].pc = "done" /\ workers[w].absent
                /\ pdfStore[workers[w].doc].kind = "pdf") => workers[w].ev = "built"

\* C10 happens: two overlapping calls for one document both found no index, both built
\* and both saved
BothBuiltAndSaved ==
    \E n \in PdfNames :
        /\ builds[n] = 2
        /\ \A w \in {1, 2} :
              workers[w] = [pc |-> "done", doc |-> n, absent |-> TRUE,
                            index |-> vectorstores[vectorstore_file(n)], ev |-> "built"]

(***************************************************************************)
(* handle_task over matchers that may do anything: each call of query_pdf  *)
(* or query_csv returns some string or raises.                             *)
(***************************************************************************)
\* what a matcher call can give: an exception, or one of these strings
StubResponses ==
    {"", " ", "Insulin", "No definition for 'X' found in d.pdf.",
     "(?) I could not find anything relevant to 'X' in d.pdf.", NoMatchingData,
     CsvErrorMark \o " Error loading CSV: boom"}

StubOutcomes == {Raised} \cup {Returned(r) : r \in StubResponses}

\* lines 52-59 with any query_pdf
stub_case1_call ==
    /\ pc = "case1"
    /\ IsIndicator[q]
    /\ cursor <= Len(pdf_files)
    /\ \E o \in StubOutcomes :
           /\ trace' = Append(trace, PdfCall("case1", pdf_files[cursor],
                                            PdfOutcome(o.raised, o.resp, Untouched(NoIndex))))
           /\ IF ~o.raised /\ IndicatorAccepts(o.resp)
              THEN pc' = "done" /\ result' = o.resp /\ cursor' = cursor
              ELSE pc' = pc /\ result' = result /\ cursor' = cursor + 1
    /\ UNCHANGED <<pdfStore, csvStore, vectorstores, pdf_files, csv_files, user_input, q,
                   snap, builds, memo, workers>>
    /\ UNCHANGED shell

\* lines 62-72 with any query_csv
stub_case2_call ==
    /\ pc = "case2"
    /\ IsStructured[q]
    /\ cursor <= Len(csv_files)
    /\ \E o \in StubOutcomes :
           /\ trace' = Append(trace, CsvCall("case2", csv_files[cursor], o))
           /\ IF ~o.raised /\ StructuredAccepts(o.resp)
              THEN pc' = "done" /\ result' = o.resp /\ cursor' = cursor
              ELSE pc' = pc /\ result' = result /\ cursor' = cursor + 1
    /\ UNCHANGED <<pdfStore, csvStore, vectorstores, pdf_files, csv_files, user_input, q,
                   snap, builds, memo, workers>>
    /\ UNCHANGED shell

\* lines 77-83 with any query_pdf
stub_case3_call ==
    /\ pc = "case3"
    /\ cursor <= Len(pdf_files)
    /\ \E o \in StubOutcomes :
           /\ trace' = Append(trace, PdfCall("case3", pdf_files[cursor],
                                            PdfOutcome(o.raised, o.resp, Untouched(NoIndex))))
           /\ IF ~o.raised /\ FallbackAccepts(o.resp)
              THEN pc' = "done" /\ result' = o.resp /\ cursor' = cursor
              ELSE pc' = pc /\ result' = result /\ cursor' = cursor + 1
    /\ UNCHANGED <<pdfStore, csvStore, vectorstores, pdf_files, csv_files, user_input, q,
                   snap, builds, memo, workers>>
    /\ UNCHANGED shell

\* the folders hold up to two documents and one table
InitStub ==
    /\ Init
    /\ pdfStore["a.pdf"] \in {MissingPdf, GuidePdf}
    /\ pdfStore["a.PDF"] = MissingPdf
    /\ pdfStore["b.pdf"] \in {MissingPdf, InvoicePdf}
    /\ csvStore["c1.csv"] \in {MissingCsv, PatientsCsv}
    /\ csvStore["c2.csv"] = MissingCsv

\* the steps of a running invocation
StubStep ==
    \/ stub_case1_call
    \/ case1_end
    \/ stub_case2_call
    \/ case2_end
    \/ stub_case3_call
    \/ case3_end

NextStub ==
    \/ \E u \in Queries : handle_task_enter(u)
    \/ stub_case1_call
    \/ case1_end
    \/ stub_case2_call
    \/ case2_end
    \/ stub_case3_call
    \/ case3_end
    \/ handle_task_return

\* handle_task is straight-line code: once called, it keeps running
SpecStub == InitStub /\ [][NextStub]_vars /\ WF_vars(StubStep)

(***************************************************************************)
(* streamlit_app.py: the chat page.  Each press of a button runs the       *)
(* script once with that button true; the history lives in the session     *)
(* state, the logs in chat_logs/.                                          *)
(***************************************************************************)
\* what record_audio recognises or the user types and handle_task is given
ChatInputs ==
    {"TOTAL", "What is the treatment for patient P003?", " tell me about malaria "}

\* what record_audio can return: a recognised text or nothing
SpokenInputs == ChatInputs \cup {""}

\* what the text box can hold when Send is pressed
TypedInputs == ChatInputs \cup {"", "  "}

MaxTurns == 2

MaxLogs == 1

\* lines 23-24: the lines save_chat_log writes for a history
LogLines(log_data) ==
    [k \in 1..Len(log_data) |-> Upper(log_data[k][1]) \o ": " \o log_data[k][2] \o "\n"]

\* lines 95-99: Reset Chat
press_reset ==
    /\ ui = IdleUi
    /\ pc = "idle"
    /\ chat_history = << >> \/ Len(chat_logs) < MaxLogs
    /\ chat_logs' = IF chat_history # << >> THEN Append(chat_logs, LogLines(chat_history))
                    ELSE chat_logs
    /\ chat_history' = << >>
    /\ UNCHANGED <<pdfStore, csvStore, vectorstores, pdf_files, csv_files, pc, user_input, q,
                   cursor, result, trace, snap, builds, memo, workers>>
    /\ UNCHANGED <<ui, call>>

\* lines 107-110: Speak pressed and record_audio returned
press_speak(text) ==
    /\ ui = IdleUi
    /\ pc = "idle"
    /\ Len(chat_history) < 2 * MaxTurns
    /\ ui' = IF text # "" THEN [at |-> "speak", input |-> text] ELSE ui
    /\ UNCHANGED <<pdfStore, csvStore, vectorstores, pdf_files, csv_files, pc, user_input, q,
                   cursor, result, trace, snap, builds, memo, workers>>
    /\ UNCHANGED <<chat_history, chat_logs, call>>

\* lines 120-121 and 126-127: Send pressed
press_send(text) ==
    /\ ui = IdleUi
    /\ pc = "idle"
    /\ Len(chat_history) < 2 * MaxTurns
    /\ ui' = IF Strip(text) # "" THEN [at |-> "send", input |-> text] ELSE ui
    /\ UNCHANGED <<pdfStore, csvStore, vectorstores, pdf_files, csv_files, pc, user_input, q,
                   cursor, result, trace, snap, builds, memo, workers>>
    /\ UNCHANGED <<chat_history, chat_logs, call>>

\* lines 112 and 122: the handler calls handle_task
chat_call ==
    /\ ui.at \in {"speak", "send"}
    /\ handle_task_enter(ui.input)

\* the handler appending the assistant's line before the user's
chat_append_swapped ==
    /\ ui.at \in {"speak", "send"}
    /\ pc = "done"
    /\ chat_history' = chat_history \o << <<"Assistant", result>>, <<"You", ui.input>> >>
    /\ ui' = IdleUi
    /\ pc' = "idle"
    /\ user_input' = ""
    /\ q' = ""
    /\ cursor' = 1
    /\ result' = ""
    /\ trace' = << >>
    /\ snap' = NoSnap
    /\ UNCHANGED <<pdfStore, csvStore, vectorstores, pdf_files, csv_files, builds, memo,
                   workers>>
    /\ UNCHANGED <<chat_logs, call>>

\* lines 112-114 and 122-124: handle_task has returned; the pair is appended
chat_append ==
    /\ ui.at \in {"speak", "send"}
    /\ pc = "done"
    /\ chat_history' = chat_history \o << <<"You", ui.input>>, <<"Assistant", result>> >>
    /\ ui' = IdleUi
    /\ pc' = "idle"
    /\ user_input' = ""
    /\ q' = ""
    /\ cursor' = 1
    /\ result' = ""
    /\ trace' = << >>
    /\ snap' = NoSnap
    /\ UNCHANGED <<pdfStore, csvStore, vectorstores, pdf_files, csv_files, builds, memo,
                   workers>>
    /\ UNCHANGED <<chat_logs, call>>

\* the folders hold at most one document and one table
InitChat ==
    /\ Init
    /\ pdfStore["a.pdf"] = MissingPdf
    /\ pdfStore["a.PDF"] = MissingPdf
    /\ pdfStore["b.pdf"] \in {MissingPdf, InvoicePdf}
    /\ csvStore["c1.csv"] \in {MissingCsv, PatientsCsv}
    /\ csvStore["c2.csv"] = MissingCsv

NextChat ==
    \/ press_reset
    \/ \E text \in SpokenInputs : press_speak(text)
    \/ \E text \in TypedInputs : press_send(text)
    \/ chat_call
    \/ case1_call
    \/ case1_end
    \/ case2_call
    \/ case2_end
    \/ case3_call
    \/ case3_end
    \/ chat_append

SpecChat == InitChat /\ [][NextChat]_vars

(***************************************************************************)
(* The Tabular Matcher's patterns, as the properties below speak of them.  *)
(***************************************************************************)
\* the columns each of the patterns 1..5 requires (lines 62, 72, 83, 92, 103)
PatternNeeds ==
    << {"PatientID", "Treatment"}, {"Facility", "Diagnosis", "Name"}, {"Region", "Cost"},
       {"Diagnosis", "PatientID", "Name"}, {"PatientID", "Cost"} >>

\* the matches of the five regular expressions on a lowercased query
PatternMatches(ql) ==
    << Search(ql, Pattern1At), Search(ql, Pattern2At), Search(ql, Pattern3At),
       Search(ql, Pattern4At), Search(ql, Pattern5At) >>

\* pattern k applies structurally: its expression matches and the table has its columns
\* (pattern 6, the broad fallback, has no expression and no required column)
Structurally(k, file, ql) ==
    k = 6 \/ (PatternMatches(ql)[k].found /\ PatternNeeds[k] \subseteq file.cols)

\* what pattern k gives on a table it applies to
PatternOutcome(k, file, ql) ==
    LET df == load_csv(file)
        m  == PatternMatches(ql)
    IN  CASE k = 1 -> Pattern1(df, m[1])
          [] k = 2 -> Pattern2(df, m[2])
          [] k = 3 -> Pattern3(df, m[3])
          [] k = 4 -> Pattern4(df, m[4])
          [] k = 5 -> Pattern5(df, m[5])
          [] OTHER -> BroadFallback(df, ql)

\* the first pattern that applies structurally
FirstApplying(file, ql) == LeastOf({k \in 1..6 : Structurally(k, file, ql)})

\* the first pattern that applies structurally and gives a non-empty result
FirstProductive(file, ql) ==
    LeastOf({k \in 1..6 : /\ Structurally(k, file, ql)
                          /\ ~PatternOutcome(k, file, ql).raised
                          /\ PatternOutcome(k, file, ql).resp # ""})

\* the query of the direct call as query_csv matches it (lines 56-57)
CallQl == Lower(Strip(call.query))

\* C11 as stated: what query_csv returns is the result of the first pattern, in the
\* order 1..6, that applies structurally and gives a non-empty result.
FirstProductivePatternReturned ==
    (call.fn = "query_csv" /\ ~call.out.raised) =>
        call.out = PatternOutcome(FirstProductive(call.table, CallQl), call.table, CallQl)

\* C11: query_csv gives what the first pattern that applies structurally gives, in the
\* order 1..6, whatever that is: an answer, the pattern's own no-match message, an empty
\* string, or the exception the pattern raised; no later pattern is tried after it.
FirstApplyingPatternReturned ==
    call.fn = "query_csv" =>
        call.out = PatternOutcome(FirstApplying(call.table, CallQl), call.table, CallQl)

\* C11 happens: a query that three patterns match, on a table with the columns of all
\* three, is answered by pattern 1
OverlappingPatternsFirstWins ==
    /\ call.fn = "query_csv"
    /\ call.table = PatientsCsv
    /\ {k \in 1..5 : Structurally(k, call.table, CallQl)} = {1, 3, 5}
    /\ call.out = Returned("Insulin")

\* the region a total-cost query names (group 1 of pattern 3, line 84)
CallRegion == Strip(PatternMatches(CallQl)[3].g1)

\* the direct call is a total-cost query on a table with regions and costs of which no
\* row is of the region asked for
UnmatchedRegionCall ==
    /\ call.fn = "query_csv"
    /\ PatternMatches(CallQl)[3].found
    /\ {"Region", "Cost"} \subseteq call.table.cols
    /\ \A k \in 1..Len(call.table.rows) :
          ~icontains(load_csv(call.table).rows[k]["Region"], CallRegion)

ZeroTotal == Returned("Total cost in " \o Capitalize(CallRegion) \o " region: 0.00")

\* C12 as stated: a total-cost query on a table where no row is of the region gets the
\* "Total cost in {Region} region" message with 0.00.
TotalCostShapeGivesZero == UnmatchedRegionCall => call.out = ZeroTotal

\* C12: a total-cost query on a table with Region and Cost columns where no row is of
\* the region gets the "Total cost in {Region} region" message with 0.00, never a later
\* pattern's result or the sentinel, provided neither pattern 1 nor pattern 2 applies
\* to the query and the table (an applying earlier pattern answers instead).
TotalCostGivesZeroUnlessEarlierPattern ==
    (UnmatchedRegionCall /\ ~Structurally(1, call.table, CallQl)
        /\ ~Structurally(2, call.table, CallQl))
    => call.out = ZeroTotal

\* C12 happens: the total for a region no row has
ZeroTotalReturned ==
    /\ UnmatchedRegionCall
    /\ call.table = PatientsCsv
    /\ call.query = "total cost for west region"
    /\ call.out = Returned("Total cost in West region: 0.00")

\* the identifier a treatment query names (group 1 of pattern 1, line 63)
CallPid == Upper(PatternMatches(CallQl)[1].g1)

\* the rows of the file whose identifier equals the one asked for, ignoring case
RowsOfPid == {k \in 1..Len(call.table.rows) : Upper(Strip(call.table.rows[k]["PatientID"])) = CallPid}

\* C13 as stated: for a query matching "treatment for/of patient ID" on a table with
\* identifier and treatment columns that holds a row whose identifier equals ID ignoring
\* case, query_csv returns exactly the treatment value of the first such row.
TreatmentOfFirstMatchingRow ==
    (/\ call.fn = "query_csv"
     /\ PatternMatches(CallQl)[1].found
     /\ {"PatientID", "Treatment"} \subseteq call.table.cols
     /\ RowsOfPid # {})
    => call.out = Returned(Strip(call.table.rows[LeastOf(RowsOfPid)]["Treatment"]))

\* the query tokens longer than 3 characters (line 115)
CallTokens == {t \in {WordTokens(CallQl, 1)[n] : n \in 1..Len(WordTokens(CallQl, 1))} : Len(t) > 3}

\* the enumerated columns the table has (line 111)
CallCols == {BroadCols[c] : c \in 1..Len(BroadCols)} \cap call.table.cols

\* row k qualifies: every token is contained in at least one of the columns
RowQualifies(k) ==
    \A t \in CallTokens : \E c \in CallCols : icontains(load_csv(call.table).rows[k][c], t)

\* the cells of a column in the qualifying rows, in table order
QualifyingCells(col) ==
    LET df  == load_csv(call.table)
        idx == SelectSeq([k \in 1..Len(df.rows) |-> k], RowQualifies)
    IN  [n \in 1..Len(idx) |-> df.rows[idx[n]][col]]

\* C14: when query_csv reaches the broad fallback, a row qualifies exactly when every
\* query token longer than 3 characters is contained, ignoring case, in at least one of
\* the enumerated columns the table has (not necessarily the same column for each
\* token); the answer lists the names (else the identifiers) of the qualifying rows, and
\* with no such token or no qualifying row it is the "No matching data" sentinel.
BroadFallbackEveryTokenSomeColumn ==
    (call.fn = "query_csv" /\ FirstApplying(call.table, CallQl) = 6) =>
        IF CallTokens = {} \/ \A k \in 1..Len(call.table.rows) : ~RowQualifies(k)
        THEN call.out = Returned(NoMatchingData)
        ELSE IF "Name" \in call.table.cols
        THEN call.out = Returned(clean_answer(QualifyingCells("Name")))
        ELSE IF "PatientID" \in call.table.cols
        THEN call.out = Returned(clean_answer(QualifyingCells("PatientID")))
        ELSE call.out = Returned(NoMatchingData)

\* C14 happens: two tokens, one found only in the name and one only in the diagnosis of
\* the same row, select that row
TokensInDifferentColumns ==
    /\ call.fn = "query_csv"
    /\ call.table = PatientsCsv
    /\ FirstApplying(call.table, CallQl) = 6
    /\ CallTokens = {"asha", "anemia"}
    /\ \A c \in CallCols : icontains(call.table.rows[1][c], "asha") <=> c = "Name"
    /\ \A c \in CallCols : icontains(call.table.rows[1][c], "anemia") <=> c = "Diagnosis"
    /\ call.out = Returned("Asha")

\* C15: with no table and no document discovered, an input that contains no canned
\* phrase is answered with the fixed generic fallback string, and no matcher is called.
NothingAvailableGivesFallback ==
    (pc = "done" /\ pdf_files = << >> /\ csv_files = << >> /\ FirstCanned[user_input] = 0)
    => (result = FinalFallback /\ trace = << >>)

\* C15 happens: free text, a structured question or a code got the generic fallback
\* with nothing discovered
FallbackWithNothingDiscovered ==
    /\ pc = "done"
    /\ pdf_files = << >>
    /\ csv_files = << >>
    /\ user_input \in {" tell me about malaria ", "treatment for patient 7", "ANC1_HTS"}
    /\ result = FinalFallback

\* what matching gives when the expression of pattern k is taken not to match
OutcomeWithout(k, file, ql) ==
    PatternOutcome(LeastOf({j \in (1..6) \ {k} : Structurally(j, file, ql)}), file, ql)

\* how the no-match messages and the total of the patterns 1..5 begin
PatternMessages ==
    {"No matching patient", "No patients treated", "Total cost in", "No patients diagnosed"}

\* C16: a pattern whose expression matches the query but whose required columns are not
\* all in the table is skipped entirely: query_csv gives what it would give had the
\* expression not matched, and when that leaves only the broad fallback the response is
\* none of the patterns' own messages.
PatternWithoutColumnsSkipped ==
    \A k \in 1..5 :
        (/\ call.fn = "query_csv"
         /\ PatternMatches(CallQl)[k].found
         /\ ~(PatternNeeds[k] \subseteq call.table.cols))
        => /\ call.out = OutcomeWithout(k, call.table, CallQl)
           /\ FirstApplying(call.table, CallQl) = 6 =>
                 /\ ~call.out.raised
                 /\ \A msg \in PatternMessages : ~StartsAt(call.out.resp, 1, msg)

\* C16 happens: a cost question on a table that has identifiers but no costs got the
\* broad fallback's sentinel, not pattern 5's "No matching patient" message
CostPatternSkippedWithoutCost ==
    /\ call.fn = "query_csv"
    /\ call.table = IdsCsv
    /\ PatternMatches(CallQl)[5].found
    /\ "PatientID" \in call.table.cols
    /\ "Cost" \notin call.table.cols
    /\ call.out = Returned(NoMatchingData)

\* line 112 and line 120 on each query handle_task can pass
IsTotalQ == [u \in QValues |-> IsTotalQuery(u)]

IsCodeQ == [u \in QValues |-> IsCodeQuery(u)]

\* the answer of the total step (lines 113-117) per document
TotalAnswerOf ==
    [n \in PdfNames |-> [f \in AllPdfFiles |->
        LET total == find_total_price(extract_pdf_text(f))
        IN  IF total # ""
            THEN MoneyMark \o " The total price in **" \o n \o "** is **$" \o total \o "**."
            ELSE WarnMark \o " No total price was detected in the document."]]

\* the answer of the code step (line 121) per document and query
CodeAnswerOf ==
    [n \in PdfNames |-> [u \in QValues |-> [f \in AllPdfFiles |->
        lookup_pdf_indicator(n, u, f)]]]

\* C17: the three steps of query_pdf are exclusive and ordered.  On a document that is
\* there, a query with a total keyword (as a word) gets the total step's answer and
\* nothing else; otherwise a query of uppercase letters, digits and underscores only
\* gets the code lookup's answer and nothing else; the index is loaded or built (or its
\* build attempted) only for queries that are neither, so an invocation with a total
\* query or a code query leaves every index directory as it was.
DocumentStepsExclusive ==
    /\ \A k \in 1..Len(trace) :
          (trace[k].stage \in {"case1", "case3"} /\ ~trace[k].raised
              /\ PdfExists(pdfStore[trace[k].src]))
          => /\ IsTotalQ[q] =>
                   /\ trace[k].ev = "none"
                   /\ trace[k].resp = TotalAnswerOf[trace[k].src][pdfStore[trace[k].src]]
             /\ (~IsTotalQ[q] /\ IsCodeQ[q]) =>
                   /\ trace[k].ev = "none"
                   /\ trace[k].resp = CodeAnswerOf[trace[k].src][q][pdfStore[trace[k].src]]
             /\ trace[k].ev # "none" => (~IsTotalQ[q] /\ ~IsCodeQ[q])
    /\ (pc # "idle" /\ (IsTotalQ[q] \/ IsCodeQ[q])) => vectorstores = snap.vectorstores

\* C17 happens: a query that is a total keyword and a code at once was answered by the
\* total step, on a document that has no index and got none
TotalBeforeCode ==
    /\ pc = "done"
    /\ q = "TOTAL"
    /\ trace # << >>
    /\ LastCall.src = "b.pdf"
    /\ LastCall.ev = "none"
    /\ vectorstores["b"] = NoIndex
    /\ result = MoneyMark \o " The total price in **b.pdf** is **$12.50**."

\* the positions of the values that are not blank and occur there for the first time
FirstOccurrences(values) ==
    {k \in 1..Len(values) : Strip(values[k]) # "" /\ \A h \in 1..(k - 1) : values[h] # values[k]}

CallsOn(name) == Len(SelectSeq(trace, LAMBDA e : e.src = name))

\* what holds of an invocation at every moment: a finished one has a non-empty result,
\* no table was queried more than once and no document more than twice
BoundedCallsNonEmptyResult ==
    /\ pc = "done" => result # ""
    /\ \A n \in CsvNames : CallsOn(n) <= 1
    /\ \A n \in PdfNames : CallsOn(n) <= 2

\* C19: for every input (the empty one included) and every discovered list, whatever
\* the matcher calls return or raise, handle_task ends with a non-empty string, having
\* called query_csv at most once per table and query_pdf at most twice per document.
HandleTaskTerminates == []BoundedCallsNonEmptyResult /\ ((pc # "idle") ~> (pc = "done"))

\* C19 happens: every call raised, each document was called twice and the table once, and
\* the invocation ended with the generic fallback
AllCallsRaised ==
    /\ pc = "done"
    /\ Len(pdf_files) = 2
    /\ Len(csv_files) = 1
    /\ Len(trace) = 5
    /\ \A k \in 1..Len(trace) : trace[k].raised
    /\ result = FinalFallback

\* the history is a sequence of (You, input) / (Assistant, response) pairs
ChatIsPairs ==
    /\ Len(chat_history) % 2 = 0
    /\ \A k \in 1..Len(chat_history) :
          IF k % 2 = 1
          THEN chat_history[k][1] = "You" /\ Strip(chat_history[k][2]) # ""
          ELSE chat_history[k][1] = "Assistant" /\ chat_history[k][2] # ""

\* what one step does to the history and the logs
ChatStep ==
    /\ chat_history' # chat_history =>
          \/ /\ chat_history' = << >>
             /\ ui = IdleUi
             /\ chat_logs' = Append(chat_logs, LogLines(chat_history))
          \/ /\ pc = "done"
             /\ user_input = ui.input
             /\ chat_history' = chat_history \o << <<"You", ui.input>>, <<"Assistant", result>> >>
             /\ chat_logs' = chat_logs
    /\ chat_logs' # chat_logs => (chat_history # << >> /\ chat_history' = << >>)
    /\ ui'.at = "send" => Strip(ui'.input) # ""
    /\ ui'.at = "speak" => ui'.input # ""

\* C20: after any sequence of Speak, Send and Reset Chat the history is made of
\* consecutive (You, input) / (Assistant, response) pairs; a handled input appends its
\* own pair, the input and then handle_task's response to it, and nothing else changes
\* the history but Reset Chat, which empties it; an empty or blank typed input and an
\* empty recognition are not handled; a log is written only by Reset Chat on a
\* non-empty history, and it holds that history.
ChatHistoryIsPairs == []ChatIsPairs /\ [][ChatStep]_vars

\* C20 happens: a chat of one pair was saved by Reset Chat and the pair of a typed
\* question a table answered has been appended since
SavedThenNewPair ==
    /\ Len(chat_logs) = 1
    /\ chat_logs[1] = <<"YOU:  tell me about malaria \n",
                        "ASSISTANT: " \o FinalFallback \o "\n">>
    /\ Len(chat_history) = 2
    /\ chat_history[1] = <<"You", "What is the treatment for patient P003?">>
    /\ chat_history[2][1] = "Assistant"
    /\ chat_history[2][2] # FinalFallback

====
